---------------------------- MODULE Spec2Model ----------------------------
(***************************************************************************)
(* Model of the bitmap-indexer reconciliation tools.                       *)
(*                                                                         *)
(*   - the First-is-First resolver (sat comp/true-bitmap.mjs, class        *)
(*     TrueBitmapResolver): run(), resolveConflict(),                      *)
(*     resolveIdenticalInscriptionConflict(), getTxPositionInBlock(),      *)
(*     fetchFromAPI() and the block-txids fallback chain;                  *)
(*   - the duplicate pipeline: duplicate-validator.mjs,                    *)
(*     duplicate-competition.mjs and the duplicate remover.                *)
(*                                                                         *)
(* Every await of the resolver is a step of the model; what a remote       *)
(* service answers is chosen nondeterministically at that step.            *)
(***************************************************************************)
EXTENDS Integers, Sequences, FiniteSets, TLC

(***************************************************************************)
(* Bounds of the model.                                                    *)
(***************************************************************************)
\* Block heights a transaction status may name are 0..MaxHeight.
MaxHeight == 2
\* Bitmap block numbers of conflicts are 1..MaxBlock.
MaxBlock == 2
\* Longest conflict list handed to run() in SpecRun.
MaxConflicts == 2
\* Sat numbers of registry records are 1..MaxSat.
MaxSat == 2

(***************************************************************************)
(* Program constants.                                                      *)
(***************************************************************************)
\* Number of primary APIs fetchFromAPI routes over (mempool, blockstream).
NumApis == 2
\* Number of services of the block-txids fallback chain.
NumBlockApis == 4
\* Default number of HTTP attempts of fetchJSONWithRetry.
Retries == 3

\* JavaScript null for a block height or a block position.
Null == -1

\* The sentinel the batch reconciler stores for a missing identity, and the
\* one it stores when the look-up itself threw.
IdNotFound == "ID not found"
LookupError == "LOOKUP_ERROR"
\* null inscriptionId of a verdict / no inscription found.
NoId == "null"
\* null txid returned by extractTxId.
NoTx == "none"

\* Two well-formed inscription ids (<txid>i<index>) of different transactions.
ValidIds == {"aai0", "bbi0"}
TxIds == {"aa", "bb"}

\* extractTxId: the 64-hex prefix of <txid>i<index>, null for anything else.
ExtractTxId(inscriptionId) ==
    IF inscriptionId = IdNotFound THEN NoTx
    ELSE IF inscriptionId = "aai0" THEN "aa"
    ELSE IF inscriptionId = "bbi0" THEN "bb"
    ELSE NoTx

(***************************************************************************)
(* Sats.  A registry file is JSON: a sat is a number or a string.  The     *)
(* resolver compares sats through toString().                              *)
(***************************************************************************)
NumSat(n) == [k |-> "num", v |-> n]
StrSat(n) == [k |-> "str", v |-> n]
NoSatVal == [k |-> "undef", v |-> 0]

RECURSIVE Digits(_)
Digits(n) == IF n < 10 THEN <<n>> ELSE Append(Digits(n \div 10), n % 10)

\* x.toString() of a sat value: its decimal digits.
SatToString(s) == Digits(s.v)

\* null returned by getInscriptionSatoshi.
NoSat == << >>

(***************************************************************************)
(* Ledger positions and verdicts.                                          *)
(***************************************************************************)
LedgerPosition(h, p) == [blockHeight |-> h, blockPosition |-> p]
NullPosition == LedgerPosition(Null, Null)

\* A verdict object.  reason is the code's reason text without the
\* interpolated numbers; x and y are the two numbers the text interpolates
\* (block heights or tx positions), Null when it names none.
Verdict(block, winner, inscriptionId, winningSat, losingSat, reason, x, y) ==
    [block |-> block, winner |-> winner, inscriptionId |-> inscriptionId,
     winningSat |-> winningSat, losingSat |-> losingSat,
     reason |-> reason, x |-> x, y |-> y]

OtherRepo(repo) == IF repo = "REPO1" THEN "REPO2" ELSE "REPO1"

\* A variant of NotFoundVerdict that names the side whose id is missing.
NotFoundVerdictSameSide(c) ==
    IF c.repo1Id = IdNotFound /\ c.repo2Id = IdNotFound
    THEN Verdict(c.block, "NEITHER", NoId, NoSatVal, NoSatVal, "Both IDs not found", Null, Null)
    ELSE IF c.repo1Id = IdNotFound
    THEN Verdict(c.block, "REPO1", c.repo1Id, NoSatVal, NoSatVal, "Repo1 ID not found", Null, Null)
    ELSE Verdict(c.block, "REPO2", c.repo2Id, NoSatVal, NoSatVal, "Repo2 ID not found", Null, Null)

\* resolveConflict, Case 2: one or both ids not found.
NotFoundVerdict(c) ==
    IF c.repo1Id = IdNotFound /\ c.repo2Id = IdNotFound
    THEN Verdict(c.block, "NEITHER", NoId, NoSatVal, NoSatVal, "Both IDs not found", Null, Null)
    ELSE IF c.repo1Id = IdNotFound
    THEN Verdict(c.block, "REPO2", c.repo2Id, NoSatVal, NoSatVal, "Repo1 ID not found", Null, Null)
    ELSE Verdict(c.block, "REPO1", c.repo1Id, NoSatVal, NoSatVal, "Repo2 ID not found", Null, Null)

InvalidFormatVerdict(c) ==
    Verdict(c.block, "UNKNOWN", NoId, NoSatVal, NoSatVal, "Invalid inscription format", Null, Null)

\* resolveConflict, Case 3: the verdict objects for a winning side.
Repo1Wins(c, reason, x, y) ==
    Verdict(c.block, "REPO1", c.repo1Id, c.file1Sat, c.file2Sat, reason, x, y)

Repo2Wins(c, reason, x, y) ==
    Verdict(c.block, "REPO2", c.repo2Id, c.file2Sat, c.file1Sat, reason, x, y)

\* A variant of MissingData without the two one-sided cases.
MissingDataUnknown(c, tx1Data, tx2Data) ==
    Verdict(c.block, "UNKNOWN", NoId, NoSatVal, NoSatVal,
            "Could not determine winner", Null, Null)

\* resolveConflict, Case 3: the cases where data is missing, and the final
\* UNKNOWN.
MissingData(c, tx1Data, tx2Data) ==
    IF tx1Data.blockHeight = Null /\ tx2Data.blockHeight # Null
    THEN Repo2Wins(c, "Repo1 tx not confirmed", Null, Null)
    ELSE IF tx2Data.blockHeight = Null /\ tx1Data.blockHeight # Null
    THEN Repo1Wins(c, "Repo2 tx not confirmed", Null, Null)
    ELSE Verdict(c.block, "UNKNOWN", NoId, NoSatVal, NoSatVal,
                 "Could not determine winner", Null, Null)

\* A variant of CompareTxOrder with the comparisons the other way round.
CompareTxOrderReversed(c, tx1Data, tx2Data) ==
    IF tx1Data.blockPosition # Null /\ tx2Data.blockPosition # Null
    THEN IF tx1Data.blockPosition > tx2Data.blockPosition
         THEN Repo1Wins(c, "Same block, tx position before",
                        tx1Data.blockPosition, tx2Data.blockPosition)
         ELSE IF tx2Data.blockPosition > tx1Data.blockPosition
         THEN Repo2Wins(c, "Same block, tx position before",
                        tx2Data.blockPosition, tx1Data.blockPosition)
         ELSE MissingData(c, tx1Data, tx2Data)
    ELSE MissingData(c, tx1Data, tx2Data)

\* resolveConflict, Case 3, STEP 2: both inscriptions are in the same block,
\* the transaction order decides.
CompareTxOrder(c, tx1Data, tx2Data) ==
    IF tx1Data.blockPosition # Null /\ tx2Data.blockPosition # Null
    THEN IF tx1Data.blockPosition < tx2Data.blockPosition
         THEN Repo1Wins(c, "Same block, tx position before",
                        tx1Data.blockPosition, tx2Data.blockPosition)
         ELSE IF tx2Data.blockPosition < tx1Data.blockPosition
         THEN Repo2Wins(c, "Same block, tx position before",
                        tx2Data.blockPosition, tx1Data.blockPosition)
         ELSE MissingData(c, tx1Data, tx2Data)
    ELSE MissingData(c, tx1Data, tx2Data)

\* A variant of DecideByLedger that lets the transaction order decide before
\* the block heights are compared.
DecideByTxOrderFirst(c, tx1Data, tx2Data) ==
    IF tx1Data.blockHeight # Null /\ tx2Data.blockHeight # Null
    THEN CompareTxOrder(c, tx1Data, tx2Data)
    ELSE MissingData(c, tx1Data, tx2Data)

\* resolveConflict, Case 3 after both getTxPositionInBlock calls returned:
\* STEP 1 (heights), STEP 2 (tx order), then the missing-data cases.
DecideByLedger(c, tx1Data, tx2Data) ==
    IF tx1Data.blockHeight # Null /\ tx2Data.blockHeight # Null
    THEN IF tx1Data.blockHeight < tx2Data.blockHeight
         THEN Repo1Wins(c, "Inscribed in block (before block)",
                        tx1Data.blockHeight, tx2Data.blockHeight)
         ELSE IF tx2Data.blockHeight < tx1Data.blockHeight
         THEN Repo2Wins(c, "Inscribed in block (before block)",
                        tx2Data.blockHeight, tx1Data.blockHeight)
         ELSE CompareTxOrder(c, tx1Data, tx2Data)
    ELSE MissingData(c, tx1Data, tx2Data)

\* resolveIdenticalInscriptionConflict, STEP 7 and the fallback, after both
\* getTxPositionInBlock calls returned.
DecideIdenticalByLedger(c, correctRepo, correctInscriptionId, remainingInscriptionId, correctTxData, remainingTxData) ==
    LET correctWins(reason, x, y) ==
            Verdict(c.block, correctRepo, correctInscriptionId, NoSatVal, NoSatVal, reason, x, y)
        otherWins(reason, x, y) ==
            Verdict(c.block, OtherRepo(correctRepo), remainingInscriptionId,
                    NoSatVal, NoSatVal, reason, x, y)
        fallback ==
            correctWins("Correct sat, could not determine remaining inscription timing",
                        Null, Null)
    IN  IF correctTxData.blockHeight # Null /\ remainingTxData.blockHeight # Null
        THEN IF correctTxData.blockHeight < remainingTxData.blockHeight
             THEN correctWins("Correct sat, inscribed in block (before)",
                              correctTxData.blockHeight, remainingTxData.blockHeight)
             ELSE IF remainingTxData.blockHeight < correctTxData.blockHeight
             THEN otherWins("Wrong sat claim, but inscribed earlier (block before)",
                            remainingTxData.blockHeight, correctTxData.blockHeight)
             ELSE IF correctTxData.blockPosition # Null /\ remainingTxData.blockPosition # Null
             THEN IF correctTxData.blockPosition < remainingTxData.blockPosition
                  THEN correctWins("Correct sat, same block, tx position before",
                                   correctTxData.blockPosition, remainingTxData.blockPosition)
                  ELSE IF remainingTxData.blockPosition < correctTxData.blockPosition
                  THEN otherWins("Wrong sat claim, but tx position before in block",
                                 remainingTxData.blockPosition, correctTxData.blockPosition)
                  ELSE fallback
             ELSE fallback
        ELSE fallback

(***************************************************************************)
(* What the remote services may answer.                                    *)
(***************************************************************************)
\* Outcome of one HTTP attempt of fetchJSONWithRetry: a 200 answer, HTTP 429,
\* HTTP 401, any other failure.
AttemptOutcomes == {"ok", "e429", "e401", "err"}

\* fetchJSONWithRetry(url, apiName): the attempts are made in order until the
\* first success; after the last failed attempt its error is thrown.  A 401
\* answered to a blockstream request clears the cached credential.
FetchJSONWithRetry(apiName, attempts) ==
    LET oks == {k \in 1..Retries : attempts[k] = "ok"}
        made == IF oks = {} THEN Retries
                ELSE CHOOSE k \in oks : \A j \in oks : k <= j
    IN  [res |-> attempts[made],
         cleared |-> apiName = "blockstream"
                     /\ \E k \in 1..made : attempts[k] = "e401"]

RetryOutcomes(apiName) ==
    {FetchJSONWithRetry(apiName, a) : a \in [1..Retries -> AttemptOutcomes]}

\* A transaction object as a primary API returns it: no status field, a
\* status without block (unconfirmed), or a status naming block height h.
TxResponses ==
    {[status |-> FALSE, height |-> Null, hash |-> FALSE],
     [status |-> TRUE, height |-> Null, hash |-> FALSE]}
    \cup {[status |-> TRUE, height |-> h, hash |-> TRUE] : h \in 0..MaxHeight}

\* A block's txid list as a service returns it (empty stands for every answer
\* that is not a non-empty array).
TxLists == {<< >>, <<"aa">>, <<"aa", "bb">>, <<"bb", "aa">>}

\* txList.indexOf(txid): zero-based, null (-1 in the code) when absent.
IndexOf(txList, txid) ==
    IF \E k \in 1..Len(txList) : txList[k] = txid
    THEN (CHOOSE k \in 1..Len(txList) :
              txList[k] = txid /\ \A j \in 1..(k - 1) : txList[j] # txid) - 1
    ELSE Null

\* The tail of getTxPositionInBlock once the block's txid list is known.
PositionIn(blockHeight, txList, txid) ==
    LedgerPosition(blockHeight, IndexOf(txList, txid))

\* The names of the primary APIs by loop index, and of the block-txids chain.
ApiName(i) == IF i = 0 THEN "mempool" ELSE "blockstream"
BlockApiName(k) ==
    IF k = 0 THEN "mempool"
    ELSE IF k = 1 THEN "blockstream"
    ELSE IF k = 2 THEN "blockchair" ELSE "blockchaininfo"

(***************************************************************************)
(* State.                                                                  *)
(***************************************************************************)
VARIABLES
    conflicts,              \* run(): the conflict list the validator returned
    idx,                    \* run(): loop index i, 1-based
    results,                \* run(): the verdicts pushed so far
    pc,                     \* where the resolver is suspended
    cur,                    \* locals of the resolveConflict call in progress
    obs,                    \* locals of the resolveConflict call that returned last
    activeApiIndex,         \* this.activeApiIndex
    exhausted,              \* this.requestCounters[name].exhausted, by index
    blockstreamAuthHeader,  \* this.blockstreamAuthHeader is set
    blockstreamVerified,    \* this._blockstreamVerified
    hasCredentials,         \* BLOCKSTREAM_CLIENT_ID/SECRET are in the environment
    blockCache,             \* this.blockCache: height -> txid list
    registry,               \* the sat_*.json files of the registry directory
    canonical,              \* the <start>-<end>.json files of the registry directory
    report,                 \* the duplicate validator's report, line by line
    competition,            \* the competition report's results
    removalLog,             \* the remover's removalLog
    stage,                  \* the stage of the duplicate pipeline to run next
    loserIdx,               \* remover: loop index i, 1-based
    prev,                   \* locals of the resolveConflict call that returned before obs
    inputFiles,             \* the parsed JSON of the two files given to the comparator
    file1Data,              \* SatComparator: this.file1Data
    file2Data,              \* SatComparator: this.file2Data
    differences,            \* SatComparator: this.differences
    stats,                  \* SatComparator: this.stats
    calls,                  \* compareFiles calls made on the comparator
    lastCall,               \* the paths of the last compareFiles call, and whether it rejected
    orderDefined,           \* the language defines the order sort left differences in
    fpc,                    \* fetchFromAPI at HTTP granularity: where the call stands
    call,                   \* fetchFromAPI: loop index i, the 401 retry, how it ended
    stack,                  \* the fetchJSONWithRetry invocations in progress, outermost first
    trace,                  \* what was sent so far: attempts per URL, credential use
    repos,                  \* the sat_*.json files of the two registries compared
    bpc,                    \* RegistryComparator.run(): the step to take next
    filesToCompare,         \* run(): filesToCompare
    warned,                 \* run(): the file-set warning was printed
    fileResults,            \* RegistryComparator: this.results
    allBlockConflicts,      \* RegistryComparator: this.allBlockConflicts
    registryCache,          \* RegistryComparator: this.registryCache
    fetched,                \* readRegistryFile calls made, by source and partition
    criticalIds,            \* the identities looked up for the critical-files section
    quotaDue,               \* Date.now() >= this.requestCounters[name].resetAt, by index
    firstLog,               \* the removalLog of the remover's run before this one
    rpc,                    \* the recovery pipeline: the step its main is at
    disk,                   \* the newest report of each kind in the scripts' directory
    exits                   \* the stages the recovery pipeline ran, and how each ended

dupVars == <<registry, canonical, report, competition, removalLog, stage, loserIdx,
             firstLog>>

diffVars == <<inputFiles, file1Data, file2Data, differences, stats, calls, lastCall,
              orderDefined>>

fetchVars == <<fpc, call, stack, trace, quotaDue>>

batchVars == <<repos, bpc, filesToCompare, warned, fileResults, allBlockConflicts,
               registryCache, fetched, criticalIds>>

recoverVars == <<rpc, disk, exits>>

vars == <<conflicts, idx, results, pc, cur, obs, prev, activeApiIndex, exhausted,
          blockstreamAuthHeader, blockstreamVerified, hasCredentials, blockCache,
          dupVars, diffVars, fetchVars, batchVars, recoverVars, recoverVars>>

resolverVars == <<conflicts, idx, results, pc, cur, obs, prev, activeApiIndex,
                  exhausted, blockstreamAuthHeader, blockstreamVerified,
                  hasCredentials, blockCache>>

providerVars == <<activeApiIndex, exhausted, blockstreamAuthHeader,
                  blockstreamVerified, blockCache>>

\* No entry in blockCache.
NoList == << >>

\* Locals of a resolveConflict call before anything was awaited.
FreshCur ==
    [path |-> "none", actualSat |-> NoSat, correctRepo |-> "none",
     remainingId |-> NoId, validOnSat |-> FALSE,
     lk |-> 0, api |-> 0, height |-> Null, blk |-> 0,
     tx1 |-> NullPosition, tx2 |-> NullPosition,
     fail1 |-> "none", fail2 |-> "none", requested |-> FALSE]

Conflict(block, repo1Id, repo2Id, file1Sat, file2Sat) ==
    [block |-> block, repo1Id |-> repo1Id, repo2Id |-> repo2Id,
     file1Sat |-> file1Sat, file2Sat |-> file2Sat]

\* An iD field of a registry record that is no <txid>i<index>.
MalformedId == "not-an-inscription-id"

\* Identities the batch reconciler may attach to a side of a conflict.
ConflictIds == ValidIds \cup {IdNotFound, LookupError, MalformedId}

\* file1Sat/file2Sat of a BLOCK_CONFLICT: both truthy and not strictly equal
\* (a number and a string of the same digits are not strictly equal).
File1Sats == {NumSat(1)}
File2Sats == {NumSat(n) : n \in 2..MaxSat} \cup {StrSat(1)}

\* The conflicts generateReport can hand to the resolver; it stores
\* LOOKUP_ERROR on both sides or on neither.
ConflictSet ==
    {c \in [block : 1..MaxBlock, repo1Id : ConflictIds, repo2Id : ConflictIds,
            file1Sat : File1Sats, file2Sat : File2Sats] :
        (c.repo1Id = LookupError) <=> (c.repo2Id = LookupError)}

\* What getInscriptionSatoshi may return: null or the digits of a sat.
ActualSats == {NoSat} \cup {Digits(n) : n \in 1..(MaxSat + 1)}

(***************************************************************************)
(* resolveConflict: which case applies, in the order the code tests them.  *)
(***************************************************************************)
Classify(c) ==
    IF c.repo1Id = c.repo2Id THEN "same"
    ELSE IF c.repo1Id = IdNotFound \/ c.repo2Id = IdNotFound THEN "notfound"
    ELSE IF ExtractTxId(c.repo1Id) = NoTx \/ ExtractTxId(c.repo2Id) = NoTx THEN "invalid"
    ELSE "diff"

\* A variant of CorrectRepoOf that compares without toString(): a sat kept
\* as a number never equals the string the service returned.
CorrectRepoStrict(c, actualSat) ==
    LET repo1SatMatch == c.file1Sat.k = "str" /\ actualSat = SatToString(c.file1Sat)
        repo2SatMatch == c.file2Sat.k = "str" /\ actualSat = SatToString(c.file2Sat)
    IN  IF repo1SatMatch /\ ~repo2SatMatch THEN "REPO1"
        ELSE IF repo2SatMatch /\ ~repo1SatMatch THEN "REPO2"
        ELSE IF repo1SatMatch /\ repo2SatMatch THEN "BOTH"
        ELSE "NEITHER"

\* resolveIdenticalInscriptionConflict, STEP 2/3: which side's claimed sat is
\* the actual sat, compared as strings.
CorrectRepoOf(c, actualSat) ==
    LET repo1SatMatch == actualSat = SatToString(c.file1Sat)
        repo2SatMatch == actualSat = SatToString(c.file2Sat)
    IN  IF repo1SatMatch /\ ~repo2SatMatch THEN "REPO1"
        ELSE IF repo2SatMatch /\ ~repo1SatMatch THEN "REPO2"
        ELSE IF repo1SatMatch /\ repo2SatMatch THEN "BOTH"
        ELSE "NEITHER"

CorrectIdOf(c, correctRepo) == IF correctRepo = "REPO1" THEN c.repo1Id ELSE c.repo2Id
RemainingSatOf(c, correctRepo) == IF correctRepo = "REPO1" THEN c.file2Sat ELSE c.file1Sat

\* What ordinals.com lists on a sat: inscriptions, each with the block number
\* its content "<n>.bitmap" names (0: any other content) and whether its
\* content could be fetched.
SatListings ==
    LET Entry == [id : ValidIds, content : 0..MaxBlock, fetched : BOOLEAN]
    IN  {<< >>} \cup {<<e>> : e \in Entry} \cup {<<e, f>> : e \in Entry, f \in Entry}

\* A variant of GetInscriptionBySat that takes the first listed inscription
\* whatever its content.
GetInscriptionBySatAnyContent(listing, listingFailed, bitmapBlock) ==
    IF listingFailed \/ listing = << >> THEN NoId ELSE listing[1].id

\* getInscriptionBySat: the first listed inscription whose fetched content is
\* exactly "<bitmapBlock>.bitmap"; null when the listing could not be fetched
\* or holds none.
GetInscriptionBySat(listing, listingFailed, bitmapBlock) ==
    LET hits == {k \in 1..Len(listing) :
                    listing[k].fetched /\ listing[k].content = bitmapBlock}
    IN  IF listingFailed \/ hits = {} THEN NoId
        ELSE listing[CHOOSE k \in hits : \A j \in hits : k <= j].id

\* The txid the getTxPositionInBlock call in progress is about.
CurTxid(c, locals) ==
    IF locals.path = "diff"
    THEN ExtractTxId(IF locals.lk = 1 THEN c.repo1Id ELSE c.repo2Id)
    ELSE ExtractTxId(IF locals.lk = 1 THEN CorrectIdOf(c, locals.correctRepo)
                     ELSE locals.remainingId)

(***************************************************************************)
(* run(): one verdict is pushed per conflict, then the loop goes on.       *)
(***************************************************************************)
\* A variant of Emit whose verdict depends on the provider the resolver has
\* switched to.
EmitByActiveProvider(verdict, locals) ==
    /\ results' = Append(results, IF activeApiIndex > 0
                                  THEN [verdict EXCEPT !.winner = "UNKNOWN"]
                                  ELSE verdict)
    /\ obs' = locals
    /\ prev' = obs
    /\ idx' = idx + 1
    /\ pc' = "idle"
    /\ cur' = FreshCur

Emit(verdict, locals) ==
    /\ results' = Append(results, verdict)
    /\ obs' = locals
    /\ prev' = obs
    /\ idx' = idx + 1
    /\ pc' = "idle"
    /\ cur' = FreshCur

\* A getTxPositionInBlock call returns data; the caller awaits the next call
\* or goes on to decide.
FinishLookup(locals, data, fail, newActive) ==
    IF locals.lk = 1
    THEN /\ cur' = [locals EXCEPT !.tx1 = data, !.fail1 = fail, !.lk = 2,
                                  !.api = newActive, !.height = Null, !.blk = 0]
         /\ pc' = "tx"
    ELSE /\ cur' = [locals EXCEPT !.tx2 = data, !.fail2 = fail,
                                  !.api = 0, !.height = Null, !.blk = 0]
         /\ pc' = "decide"

\* resolveConflict, Case 2.
ResolveNotFound ==
    /\ pc = "idle" /\ idx <= Len(conflicts)
    /\ Classify(conflicts[idx]) = "notfound"
    /\ Emit(NotFoundVerdict(conflicts[idx]), [FreshCur EXCEPT !.path = "notfound"])
    /\ UNCHANGED <<conflicts, dupVars, diffVars, fetchVars, batchVars, recoverVars, providerVars, hasCredentials>>

\* resolveConflict, Case 3 with an id extractTxId rejects.
ResolveInvalidFormat ==
    /\ pc = "idle" /\ idx <= Len(conflicts)
    /\ Classify(conflicts[idx]) = "invalid"
    /\ Emit(InvalidFormatVerdict(conflicts[idx]), [FreshCur EXCEPT !.path = "invalid"])
    /\ UNCHANGED <<conflicts, dupVars, diffVars, fetchVars, batchVars, recoverVars, providerVars, hasCredentials>>

\* resolveConflict, Case 1: hand over to resolveIdenticalInscriptionConflict.
StartIdentical ==
    /\ pc = "idle" /\ idx <= Len(conflicts)
    /\ Classify(conflicts[idx]) = "same"
    /\ pc' = "satoshi"
    /\ cur' = [FreshCur EXCEPT !.path = "same"]
    /\ UNCHANGED <<conflicts, dupVars, diffVars, fetchVars, batchVars, recoverVars, idx, results, obs, prev, providerVars, hasCredentials>>

\* resolveConflict, Case 3: the first getTxPositionInBlock call starts.
StartDifferent ==
    /\ pc = "idle" /\ idx <= Len(conflicts)
    /\ Classify(conflicts[idx]) = "diff"
    /\ pc' = "tx"
    /\ cur' = [FreshCur EXCEPT !.path = "diff", !.lk = 1, !.api = activeApiIndex]
    /\ UNCHANGED <<conflicts, dupVars, diffVars, fetchVars, batchVars, recoverVars, idx, results, obs, prev, providerVars, hasCredentials>>

\* resolveIdenticalInscriptionConflict, STEP 1 to 3.
GetInscriptionSatoshi ==
    /\ pc = "satoshi"
    /\ \E actualSat \in ActualSats :
         LET c == conflicts[idx]
             locals == [cur EXCEPT !.actualSat = actualSat, !.requested = TRUE]
             correct == CorrectRepoOf(c, actualSat)
         IN  IF actualSat = NoSat
             THEN Emit(Verdict(c.block, "UNKNOWN", c.repo1Id, NoSatVal, NoSatVal,
                               "Could not determine actual satoshi", Null, Null), locals)
             ELSE IF correct = "BOTH"
             THEN Emit(Verdict(c.block, "BOTH", c.repo1Id, NoSatVal, NoSatVal,
                               "Both agree: inscription on sat", Null, Null),
                       [locals EXCEPT !.correctRepo = correct])
             ELSE IF correct = "NEITHER"
             THEN Emit(Verdict(c.block, "UNKNOWN", c.repo1Id, NoSatVal, NoSatVal,
                               "Inscription on sat (neither repo correct)", Null, Null),
                       [locals EXCEPT !.correctRepo = correct])
             ELSE /\ pc' = "bysat"
                  /\ cur' = [locals EXCEPT !.correctRepo = correct]
                  /\ UNCHANGED <<idx, results, obs, prev>>
    /\ UNCHANGED <<conflicts, dupVars, diffVars, fetchVars, batchVars, recoverVars, providerVars, hasCredentials>>

\* resolveIdenticalInscriptionConflict, STEP 4 and 5.
FindRemainingInscription ==
    /\ pc = "bysat"
    /\ \E listing \in SatListings, listingFailed \in BOOLEAN :
         LET c == conflicts[idx]
             correctInscriptionId == CorrectIdOf(c, cur.correctRepo)
             remainingInscriptionId == GetInscriptionBySat(listing, listingFailed, c.block)
             locals == [cur EXCEPT
                          !.remainingId = remainingInscriptionId,
                          !.validOnSat = \E k \in 1..Len(listing) :
                                            listing[k].content = c.block]
         IN  IF remainingInscriptionId = NoId
             THEN Emit(Verdict(c.block, cur.correctRepo, correctInscriptionId,
                               NoSatVal, NoSatVal,
                               "Correct sat, remaining sat has no valid bitmap inscription",
                               Null, Null), locals)
             ELSE IF ExtractTxId(correctInscriptionId) = NoTx
                     \/ ExtractTxId(remainingInscriptionId) = NoTx
             THEN Emit(Verdict(c.block, cur.correctRepo, correctInscriptionId,
                               NoSatVal, NoSatVal,
                               "Correct sat, invalid remaining inscription format",
                               Null, Null), locals)
             ELSE /\ pc' = "tx"
                  /\ cur' = [locals EXCEPT !.lk = 1, !.api = activeApiIndex]
                  /\ UNCHANGED <<idx, results, obs, prev>>
    /\ UNCHANGED <<conflicts, dupVars, diffVars, fetchVars, batchVars, recoverVars, providerVars, hasCredentials>>

(***************************************************************************)
(* getTxPositionInBlock: fetchFromAPI, then the block's txid list.         *)
(***************************************************************************)
\* A variant of BlockCacheGet that never finds a list.
BlockCacheMiss(cache, height) == NoList

\* this.blockCache.has(cacheKey) / get(cacheKey): NoList when the height has
\* no entry.
BlockCacheGet(cache, height) == cache[height]

\* Math.min in the place of Math.max.
Min(a, b) == IF a <= b THEN a ELSE b

\* Math.max
Max(a, b) == IF a >= b THEN a ELSE b

\* JavaScript !x for a block height: null, undefined and 0 are falsy.
Falsy(height) == height = Null \/ height = 0

\* One iteration of the loop of fetchFromAPI (provider cur.api), or the throw
\* after the loop, followed by the part of getTxPositionInBlock that needs no
\* further request.
FetchFromAPI ==
    /\ pc = "tx"
    /\ LET c == conflicts[idx]
           i == cur.api
           txid == CurTxid(c, cur)
           locals == [cur EXCEPT !.requested = TRUE]
       IN  IF i >= NumApis
           THEN \* throw lastError || 'All primary APIs exhausted'
                /\ FinishLookup(cur, NullPosition, "providers", activeApiIndex)
                /\ UNCHANGED providerVars
           ELSE \E elapsed \in BOOLEAN,
                   verify \in (IF i = 1 /\ hasCredentials /\ ~blockstreamVerified
                               THEN {"ok", "e401", "err"} ELSE {"skip"}) :
                LET \* refreshBlockstreamAuth, verifyBlockstreamCredentials
                    auth0 == IF i = 1 THEN hasCredentials ELSE blockstreamAuthHeader
                    auth1 == IF verify = "e401" THEN FALSE ELSE auth0
                    verified1 == IF verify = "ok" THEN TRUE
                                 ELSE IF verify = "e401" THEN FALSE
                                 ELSE blockstreamVerified
                    \* the quota window elapsed: the counter is reset
                    exh0 == IF elapsed THEN [exhausted EXCEPT ![i] = FALSE] ELSE exhausted
                    bumped == Max(activeApiIndex, i + 1)
                    \* the transaction object arrived
                    Got(auth, verified, tx) ==
                        /\ blockstreamAuthHeader' = auth
                        /\ blockstreamVerified' = verified
                        /\ exhausted' = exh0
                        /\ UNCHANGED <<activeApiIndex, blockCache>>
                        /\ IF ~tx.status \/ Falsy(tx.height) \/ ~tx.hash
                           THEN FinishLookup(locals, NullPosition, "none", activeApiIndex)
                           ELSE IF BlockCacheGet(blockCache, tx.height) # NoList
                           THEN FinishLookup(locals,
                                    PositionIn(tx.height, BlockCacheGet(blockCache, tx.height), txid),
                                    "none", activeApiIndex)
                           ELSE /\ pc' = "blk"
                                /\ cur' = [locals EXCEPT !.height = tx.height, !.blk = 0]
                    \* the provider failed: the loop goes on with the next one
                    Failed(auth, verified, exhaust) ==
                        /\ blockstreamAuthHeader' = auth
                        /\ blockstreamVerified' = verified
                        /\ exhausted' = IF exhaust THEN [exh0 EXCEPT ![i] = TRUE] ELSE exh0
                        /\ activeApiIndex' = IF exhaust THEN bumped ELSE activeApiIndex
                        /\ UNCHANGED blockCache
                        /\ pc' = "tx"
                        /\ cur' = [locals EXCEPT !.api = i + 1]
                IN  IF exh0[i]
                    THEN \* exhausted: no request, move to the next API
                         /\ blockstreamAuthHeader' = auth1
                         /\ blockstreamVerified' = verified1
                         /\ exhausted' = exh0
                         /\ UNCHANGED <<activeApiIndex, blockCache>>
                         /\ pc' = "tx"
                         /\ cur' = [(IF verify = "skip" THEN cur ELSE locals)
                                       EXCEPT !.api = i + 1]
                    ELSE \E r \in RetryOutcomes(ApiName(i)) :
                         LET auth2 == IF r.cleared THEN FALSE ELSE auth1
                             verified2 == IF r.cleared THEN FALSE ELSE verified1
                         IN  IF r.res = "ok"
                             THEN \E tx \in TxResponses : Got(auth2, verified2, tx)
                             ELSE IF r.res = "e429"
                             THEN Failed(auth2, verified2, TRUE)
                             ELSE IF i = 1 /\ r.res = "e401"
                             THEN \* retry unauthenticated once
                                  \E r2 \in RetryOutcomes(ApiName(i)) :
                                     IF r2.res = "ok"
                                     THEN \E tx \in TxResponses : Got(FALSE, FALSE, tx)
                                     ELSE Failed(FALSE, FALSE, TRUE)
                             ELSE Failed(auth2, verified2, FALSE)
    /\ UNCHANGED <<conflicts, dupVars, diffVars, fetchVars, batchVars, recoverVars, idx, results, obs, prev, hasCredentials>>

\* One service of the block-txids chain (cur.blk), tried because the block is
\* not cached and every earlier service failed.
FetchBlockTxids ==
    /\ pc = "blk"
    /\ LET c == conflicts[idx]
           k == cur.blk
           txid == CurTxid(c, cur)
       IN  \E r \in RetryOutcomes(BlockApiName(k)) :
           /\ blockstreamAuthHeader' = IF r.cleared THEN FALSE ELSE blockstreamAuthHeader
           /\ blockstreamVerified' = IF r.cleared THEN FALSE ELSE blockstreamVerified
           /\ UNCHANGED <<activeApiIndex, exhausted>>
           /\ IF r.res = "ok"
              THEN \E txList \in TxLists :
                   IF txList = << >>
                   THEN \* Invalid txids response: thrown, caught by the handler
                        /\ FinishLookup(cur, NullPosition, "invalid", activeApiIndex)
                        /\ UNCHANGED blockCache
                   ELSE /\ blockCache' = [blockCache EXCEPT ![cur.height] = txList]
                        /\ FinishLookup(cur, PositionIn(cur.height, txList, txid),
                                        "none", activeApiIndex)
              ELSE /\ UNCHANGED blockCache
                   /\ IF k + 1 >= NumBlockApis
                      THEN \* All block txid APIs failed
                           FinishLookup(cur, NullPosition, "providers", activeApiIndex)
                      ELSE /\ pc' = "blk"
                           /\ cur' = [cur EXCEPT !.blk = k + 1]
    /\ UNCHANGED <<conflicts, dupVars, diffVars, fetchVars, batchVars, recoverVars, idx, results, obs, prev, hasCredentials>>

\* Both ledger positions are known: the verdict of the conflict.
Decide ==
    /\ pc = "decide"
    /\ LET c == conflicts[idx]
       IN  IF cur.path = "diff"
           THEN Emit(DecideByLedger(c, cur.tx1, cur.tx2), cur)
           ELSE Emit(DecideIdenticalByLedger(c, cur.correctRepo,
                         CorrectIdOf(c, cur.correctRepo), cur.remainingId,
                         cur.tx1, cur.tx2), cur)
    /\ UNCHANGED <<conflicts, dupVars, diffVars, fetchVars, batchVars, recoverVars, providerVars, hasCredentials>>

\* run(): every conflict has its verdict; the report is generated.
GenerateReport ==
    /\ pc = "idle" /\ idx > Len(conflicts)
    /\ pc' = "done"
    /\ UNCHANGED <<conflicts, dupVars, diffVars, fetchVars, batchVars, recoverVars, idx, results, cur, obs, prev, providerVars, hasCredentials>>

\* duplicate-competition.mjs: results before any block is resolved.
NoCompetition == [winners |-> << >>, losers |-> << >>, unresolved |-> << >>]

\* No run of the remover came before.
NoLog == << >>

\* The remover's removalLog before any loser is processed.
EmptyRemovalLog == [removed |-> << >>, failed |-> << >>, notFound |-> << >>]

\* The duplicate pipeline is not run.
NoPipeline ==
    /\ registry = << >> /\ canonical = << >> /\ report = << >>
    /\ competition = NoCompetition /\ removalLog = EmptyRemovalLog
    /\ stage = "off" /\ loserIdx = 1 /\ firstLog = NoLog

\* SatComparator: this.stats after construction.
FreshStats ==
    [file1Count |-> 0, file2Count |-> 0, matches |-> 0, conflicts |-> 0,
     file1Only |-> 0, file2Only |-> 0]

\* A SatComparator after construction.
FreshComparator ==
    /\ file1Data = << >> /\ file2Data = << >> /\ differences = << >>
    /\ stats = FreshStats /\ calls = 0 /\ orderDefined = TRUE
    /\ lastCall = [file1Path |-> 1, file2Path |-> 2, rejected |-> FALSE]

\* No comparison is run.
NoComparison == inputFiles = << >> /\ FreshComparator

\* The URL fetchFromAPI builds for a provider and a URL a 3xx answer may
\* name in its location header.
Urls == {"url", "location"}

\* No fetchFromAPI call was made, nothing was sent.
FreshCall == [n |-> 0, i |-> 0, second |-> FALSE, result |-> "none", error |-> "none"]

FreshTrace ==
    [attempts |-> [u \in Urls |-> 0], cleared |-> FALSE, unauthRetries |-> 0,
     authAfterClear |-> FALSE, lastAttempt |-> "none", thrown |-> "none"]

\* The quota window of no provider is over.
WindowsOpen == [i \in 0..(NumApis - 1) |-> FALSE]

NoFetch ==
    /\ fpc = "idle" /\ call = FreshCall /\ stack = << >> /\ trace = FreshTrace
    /\ quotaDue = WindowsOpen

\* No RegistryComparator was constructed.
NoBatch ==
    /\ repos = << >> /\ bpc = [stage |-> "idle", i |-> 0] /\ filesToCompare = << >>
    /\ warned = FALSE /\ fileResults = << >> /\ allBlockConflicts = << >>
    /\ registryCache = << >> /\ fetched = << >> /\ criticalIds = << >>

\* No recovery pipeline was started.
NoRecover == rpc = "off" /\ disk = << >> /\ exits = << >>

\* A TrueBitmapResolver after construction.
FreshResolver ==
    /\ idx = 1 /\ results = << >> /\ obs = FreshCur /\ prev = FreshCur
    /\ pc = "idle" /\ cur = FreshCur
    /\ activeApiIndex = 0
    /\ exhausted = [i \in 0..(NumApis - 1) |-> FALSE]
    /\ hasCredentials \in BOOLEAN
    /\ blockstreamAuthHeader = hasCredentials
    /\ blockstreamVerified = FALSE
    /\ blockCache = [h \in 1..MaxHeight |-> NoList]

\* run() on a list of one conflict.
Init ==
    /\ conflicts \in {<<c>> : c \in ConflictSet}
    /\ FreshResolver
    /\ NoPipeline
    /\ NoComparison
    /\ NoFetch
    /\ NoBatch
    /\ NoRecover

\* The conflict lists of SpecRun: allBlockConflicts is sorted by block and
\* holds a block once.
RunConflictSet ==
    {c \in ConflictSet :
        /\ c.file2Sat = NumSat(2)
        /\ <<c.repo1Id, c.repo2Id>> \in
              {<<"aai0", "bbi0">>, <<"aai0", "aai0">>,
               <<IdNotFound, "aai0">>, <<MalformedId, "aai0">>}}

RunConflictLists ==
    UNION {{l \in [1..n -> RunConflictSet] :
               \A k \in 1..(n - 1) : l[k].block < l[k + 1].block} :
           n \in 1..MaxConflicts}

\* run() on a list of up to MaxConflicts conflicts, in an environment without
\* blockstream credentials.
InitRun ==
    /\ conflicts \in RunConflictLists
    /\ FreshResolver
    /\ hasCredentials = FALSE
    /\ NoPipeline
    /\ NoComparison
    /\ NoFetch
    /\ NoBatch
    /\ NoRecover

Next ==
    \/ ResolveNotFound
    \/ ResolveInvalidFormat
    \/ StartIdentical
    \/ StartDifferent
    \/ GetInscriptionSatoshi
    \/ FindRemainingInscription
    \/ FetchFromAPI
    \/ FetchBlockTxids
    \/ Decide
    \/ GenerateReport

Spec == Init /\ [][Next]_vars

SpecRun == InitRun /\ [][Next]_vars

\* resolveConflict is called twice on one resolver with the same conflict: the
\* second call finds the provider state and the block cache the first left.
\* The block of the conflict is only copied into the verdict.
InitTwice ==
    /\ \E c \in {r \in RunConflictSet : r.block = 1} : conflicts = <<c, c>>
    /\ FreshResolver
    /\ hasCredentials = FALSE
    /\ NoPipeline
    /\ NoComparison
    /\ NoFetch
    /\ NoBatch
    /\ NoRecover

SpecTwice == InitTwice /\ [][Next]_vars

(***************************************************************************)
(* The duplicate pipeline: duplicate-validator.mjs scans the sat_*.json    *)
(* files and writes a report, duplicate-competition.mjs reads the report   *)
(* and the canonical files and writes the losers, the remover deletes the  *)
(* losers from the sat_*.json files.                                       *)
(***************************************************************************)
\* Records per sat_*.json file, records of the first and of the second
\* canonical file.
MaxFileLen == 2
MaxCanonicalLen == 2

\* readdirSync of the registry directory: the sat_*.json names, sorted.
SatFileNames == <<"sat_0.json", "sat_1.json">>

\* A lookup record {sat, block} of a sat_*.json file.
SatRecord(sat, block) == [sat |-> sat, block |-> block]

SatRecords == {SatRecord(s, b) : s \in 1..MaxSat, b \in 1..MaxBlock}

SeqsUpTo(S, n) == UNION {[1..k -> S] : k \in 0..n}

\* The canonical files are named <start>-<end>.json: only a name whose start
\* is 0 begins with "0-".
StartsWithZeroDash(name) == name.start = 0

\* duplicate-validator.mjs: this.results after construction.
FreshResults ==
    [duplicateBlocks |-> [b \in 1..MaxBlock |-> << >>],
     duplicateSats |-> [s \in 1..MaxSat |-> << >>],
     totalEntries |-> 0,
     uniqueBlocks |-> {},
     uniqueSats |-> {},
     invalidEntries |-> << >>]

\* validateEntries(entries, filename): the first record of a block (of a sat)
\* makes it known, every later one is pushed to its duplicate list.
RECURSIVE ValidateEntries(_, _, _)
ValidateEntries(res, entries, filename) ==
    IF entries = << >> THEN res
    ELSE
      LET entry == Head(entries)
          counted == [res EXCEPT !.totalEntries = @ + 1]
          next ==
            IF Falsy(entry.block)
            THEN [counted EXCEPT !.invalidEntries =
                      Append(@, [file |-> filename, reason |-> "Missing block field"])]
            ELSE IF entry.sat = Null
            THEN [counted EXCEPT !.invalidEntries =
                      Append(@, [file |-> filename,
                                 reason |-> "Missing or invalid sat field"])]
            ELSE
              LET blocks ==
                    IF entry.block \notin counted.uniqueBlocks
                    THEN [counted EXCEPT !.uniqueBlocks = @ \cup {entry.block}]
                    ELSE [counted EXCEPT !.duplicateBlocks[entry.block] =
                              Append(@, [file |-> filename, sat |-> entry.sat])]
              IN IF entry.sat \notin blocks.uniqueSats
                 THEN [blocks EXCEPT !.uniqueSats = @ \cup {entry.sat}]
                 ELSE [blocks EXCEPT !.duplicateSats[entry.sat] =
                           Append(@, [file |-> filename, block |-> entry.block])]
      IN ValidateEntries(next, Tail(entries), filename)

\* The loop of scanAllFiles over the sat_*.json files.
RECURSIVE ScanFiles(_, _)
ScanFiles(res, files) ==
    IF files = << >> THEN res
    ELSE ScanFiles(ValidateEntries(res, Head(files).content, Head(files).file),
                   Tail(files))

\* A line of the report's duplicate sections:
\*   "Block <block>:"                        kind BlockHeader
\*   "  <k>. File: <file>, Sat: <sat>"       kind BlockItem
\*   "Sat <sat>:"                            kind SatHeader
\*   "  <k>. File: <file>, Block: <block>"   kind SatItem
ReportLine(kind, block, sat, file) ==
    [kind |-> kind, block |-> block, sat |-> sat, file |-> file]

\* The item lines of one duplicate list.
BlockItems(dups) ==
    [k \in 1..Len(dups) |-> ReportLine("BlockItem", Null, dups[k].sat, dups[k].file)]

SatItems(dups) ==
    [k \in 1..Len(dups) |-> ReportLine("SatItem", dups[k].block, Null, dups[k].file)]

\* generateReport: the duplicate-blocks section, blocks ascending from b.
RECURSIVE DuplicateBlockLines(_, _)
DuplicateBlockLines(res, b) ==
    IF b > MaxBlock THEN << >>
    ELSE IF res.duplicateBlocks[b] = << >> THEN DuplicateBlockLines(res, b + 1)
    ELSE <<ReportLine("BlockHeader", b, Null, "")>>
         \o BlockItems(res.duplicateBlocks[b])
         \o DuplicateBlockLines(res, b + 1)

\* generateReport: the duplicate-sats section, sats ascending from s.
RECURSIVE DuplicateSatLines(_, _)
DuplicateSatLines(res, s) ==
    IF s > MaxSat THEN << >>
    ELSE IF res.duplicateSats[s] = << >> THEN DuplicateSatLines(res, s + 1)
    ELSE <<ReportLine("SatHeader", Null, s, "")>>
         \o SatItems(res.duplicateSats[s])
         \o DuplicateSatLines(res, s + 1)

\* generateReport: the text written to the report file (the lines before the
\* duplicate sections hold neither "Block <n>:" nor "Sat: <n>").
GenerateDuplicateReport(res) ==
    DuplicateBlockLines(res, 1) \o DuplicateSatLines(res, 1)

\* parseDuplicateReport: a section runs from a "Block <n>:" line to the next
\* one or to the end of the text; its sats are the matches of "Sat: <n>".
\* sections maps a block to the sats of its last section, None if it has none.
NoSection == <<Null>>

RECURSIVE ParseSections(_, _, _)
ParseSections(lines, blockHeight, sections) ==
    IF lines = << >> THEN sections
    ELSE
      LET line == Head(lines) IN
      IF line.kind = "BlockHeader"
      THEN ParseSections(Tail(lines), line.block,
                         [sections EXCEPT ![line.block] = << >>])
      ELSE IF line.kind = "BlockItem" /\ blockHeight # Null
      THEN ParseSections(Tail(lines), blockHeight,
                         [sections EXCEPT ![blockHeight] = Append(@, line.sat)])
      ELSE ParseSections(Tail(lines), blockHeight, sections)

\* parseDuplicateReport: blockHeight -> sats, << >> for a block without key.
ParseDuplicateReport(reportContent) ==
    LET sections == ParseSections(reportContent, Null,
                                  [b \in 1..MaxBlock |-> NoSection])
    IN [b \in 1..MaxBlock |->
           IF sections[b] # NoSection /\ Len(sections[b]) > 1
           THEN sections[b] ELSE << >>]

\* loadRegistryIndex: the entries of one file, later entries overwrite.
RECURSIVE IndexEntries(_, _)
IndexEntries(blockToSat, content) ==
    IF content = << >> THEN blockToSat
    ELSE LET entry == Head(content) IN
         IndexEntries(IF ~Falsy(entry.block) /\ ~Falsy(entry.sat)
                      THEN [blockToSat EXCEPT ![entry.block] = entry.sat]
                      ELSE blockToSat,
                      Tail(content))

\* loadRegistryIndex: the files whose name starts with "0-", in order.
RECURSIVE IndexFiles(_, _)
IndexFiles(blockToSat, files) ==
    IF files = << >> THEN blockToSat
    ELSE IndexFiles(IF StartsWithZeroDash(Head(files).name)
                    THEN IndexEntries(blockToSat, Head(files).content)
                    ELSE blockToSat,
                    Tail(files))

\* loadRegistryIndex: blockHeight -> registeredSat, Null for undefined.
LoadRegistryIndex(files) == IndexFiles([b \in 1..MaxBlock |-> Null], files)

\* The sats of a list that differ from winner.
RECURSIVE Losers(_, _, _)
Losers(sats, winner, blockNum) ==
    IF sats = << >> THEN << >>
    ELSE (IF Head(sats) # winner
          THEN <<[block |-> blockNum, sat |-> Head(sats)]>> ELSE << >>)
         \o Losers(Tail(sats), winner, blockNum)

\* resolveCompetition with the first listed sat as the winner of a block the
\* index does not hold.
RECURSIVE ResolveCompetitionByFirstSat(_, _, _, _)
ResolveCompetitionByFirstSat(duplicates, blockToSat, b, res) ==
    IF b > MaxBlock THEN res
    ELSE IF duplicates[b] = << >>
    THEN ResolveCompetitionByFirstSat(duplicates, blockToSat, b + 1, res)
    ELSE
      LET winner == IF blockToSat[b] = Null THEN duplicates[b][1] ELSE blockToSat[b]
          losers == Losers(duplicates[b], winner, b)
      IN ResolveCompetitionByFirstSat(duplicates, blockToSat, b + 1,
            IF Len(losers) > 0
            THEN [res EXCEPT !.winners = Append(@, [block |-> b, sat |-> winner]),
                             !.losers = @ \o losers]
            ELSE res)

\* resolveCompetition: the loop over Object.entries(duplicates), from block b.
RECURSIVE ResolveCompetition(_, _, _, _)
ResolveCompetition(duplicates, blockToSat, b, res) ==
    IF b > MaxBlock THEN res
    ELSE IF duplicates[b] = << >>
    THEN ResolveCompetition(duplicates, blockToSat, b + 1, res)
    ELSE IF blockToSat[b] = Null
    THEN ResolveCompetition(duplicates, blockToSat, b + 1,
            [res EXCEPT !.unresolved =
                 Append(@, [block |-> b, duplicateSats |-> duplicates[b]])])
    ELSE
      LET winner == blockToSat[b]
          losers == Losers(duplicates[b], winner, b)
      IN ResolveCompetition(duplicates, blockToSat, b + 1,
            IF Len(losers) > 0
            THEN [res EXCEPT !.winners = Append(@, [block |-> b, sat |-> winner]),
                             !.losers = @ \o losers]
            ELSE res)

\* findSatFile: the index of the first sat_*.json file holding targetSat, 0
\* for null.
FindSatFile(files, targetSat) ==
    LET holding == {k \in 1..Len(files) :
                       \E i \in 1..Len(files[k].content) :
                           files[k].content[i].sat = targetSat}
    IN IF holding = {} THEN 0
       ELSE CHOOSE k \in holding : \A m \in holding : k <= m

\* removeLoserFromFile: content.filter(entry => entry.sat !== loserSat).
RemoveLoserFromFile(content, loserSat) ==
    SelectSeq(content, LAMBDA entry : entry.sat # loserSat)

\* duplicate-validator.mjs main: scan the sat_*.json files, write the report.
ScanAllFiles ==
    /\ stage = "validate"
    /\ report' = GenerateDuplicateReport(ScanFiles(FreshResults, registry))
    /\ stage' = "compete"
    /\ UNCHANGED <<resolverVars, diffVars, fetchVars, batchVars, recoverVars, firstLog, registry, canonical, competition, removalLog, loserIdx>>

\* duplicate-competition.mjs main: read the report, load the index, write
\* the competition report.
CompetitionMain ==
    /\ stage = "compete"
    /\ competition' = ResolveCompetition(ParseDuplicateReport(report),
                                         LoadRegistryIndex(canonical), 1,
                                         NoCompetition)
    /\ stage' = "remove"
    /\ loserIdx' = 1
    /\ UNCHANGED <<resolverVars, diffVars, fetchVars, batchVars, recoverVars, firstLog, registry, canonical, report, removalLog>>

\* removeLoserFromFile: fs.writeFileSync writes the file, or throws and the
\* loop's catch records the loser as failed.
WriteOutcomes == BOOLEAN

\* A loop that is left at the first loser it handles.
LeaveLoop(i) == Len(competition.losers) + 1

\* The remover's loop: i++ after the body, the continue of a not-found loser
\* and the catch of a failed one included.
NextLoser(i) == i + 1

\* The remover's main: one iteration of the loop over the losers.
RemoveLoser ==
    /\ stage = "remove"
    /\ loserIdx <= Len(competition.losers)
    /\ LET loser == competition.losers[loserIdx]
           k == FindSatFile(registry, loser.sat)
       IN IF k = 0
          THEN /\ removalLog' = [removalLog EXCEPT !.notFound =
                     Append(@, [block |-> loser.block, sat |-> loser.sat])]
               /\ UNCHANGED registry
          ELSE LET content == registry[k].content
                   filtered == RemoveLoserFromFile(content, loser.sat)
               IN \E written \in WriteOutcomes :
                  IF Len(filtered) = Len(content) \/ ~written
                  THEN /\ removalLog' = [removalLog EXCEPT !.failed =
                             Append(@, [block |-> loser.block, sat |-> loser.sat,
                                        file |-> registry[k].file])]
                       /\ UNCHANGED registry
                  ELSE /\ registry' = [registry EXCEPT ![k].content = filtered]
                       /\ removalLog' = [removalLog EXCEPT !.removed =
                             Append(@, [block |-> loser.block, sat |-> loser.sat,
                                        file |-> registry[k].file,
                                        entriesBefore |-> Len(content),
                                        entriesAfter |-> Len(filtered)])]
    /\ loserIdx' = NextLoser(loserIdx)
    /\ UNCHANGED <<resolverVars, diffVars, fetchVars, batchVars, recoverVars, firstLog, canonical, report, competition, stage>>

\* The remover's main after the loop: the removal report is written.
WriteRemovalReport ==
    /\ stage = "remove"
    /\ loserIdx > Len(competition.losers)
    /\ stage' = "done"
    /\ UNCHANGED <<resolverVars, diffVars, fetchVars, batchVars, recoverVars, firstLog, registry, canonical, report, competition,
                   removalLog, loserIdx>>

\* The registry directories the pipeline is run on.
RegistrySet ==
    {[k \in 1..Len(SatFileNames) |-> [file |-> SatFileNames[k], content |-> c[k]]] :
        c \in [1..Len(SatFileNames) -> SeqsUpTo(SatRecords, MaxFileLen)]}

\* A canonical record {block, iD, sat}; the iD is not read by the pipeline.
CanonicalRecords == {[block |-> b, sat |-> s] : b \in 1..MaxBlock, s \in 1..MaxSat}

CanonicalSet ==
    {<<[name |-> [start |-> 0, end |-> 9999], content |-> c0],
       [name |-> [start |-> 10000, end |-> 19999], content |-> c1]>> :
        c0 \in SeqsUpTo(CanonicalRecords, MaxCanonicalLen),
        c1 \in SeqsUpTo(CanonicalRecords, 1)}

\* The three stages run in order on a registry directory; no resolver runs.
InitDup ==
    /\ registry \in RegistrySet
    /\ canonical \in CanonicalSet
    /\ report = << >>
    /\ competition = NoCompetition
    /\ removalLog = EmptyRemovalLog
    /\ stage = "validate"
    /\ loserIdx = 1
    /\ firstLog = NoLog
    /\ conflicts = << >>
    /\ FreshResolver
    /\ hasCredentials = FALSE
    /\ NoComparison
    /\ NoFetch
    /\ NoBatch
    /\ NoRecover

NextDup ==
    \/ ScanAllFiles
    \/ CompetitionMain
    \/ RemoveLoser
    \/ WriteRemovalReport

SpecDup == InitDup /\ [][NextDup]_vars

\* The longest losers list of a competition report the remover is run on.
MaxLosers == 3

\* A loser {block, sat} of results.losers.
LoserRecords == {[block |-> b, sat |-> s] : b \in 1..MaxBlock, s \in 1..MaxSat}

\* The remover's main run once more with the same competition report: a new
\* removalLog, the loop from the first loser.
RunRemoverAgain ==
    /\ stage = "done"
    /\ firstLog = NoLog
    /\ firstLog' = removalLog
    /\ removalLog' = EmptyRemovalLog
    /\ stage' = "remove"
    /\ loserIdx' = 1
    /\ UNCHANGED <<resolverVars, diffVars, fetchVars, batchVars, recoverVars, registry, canonical, report, competition>>

\* The remover run on a registry directory with a competition report.
InitRemove ==
    /\ registry \in RegistrySet
    /\ canonical = << >>
    /\ report = << >>
    /\ competition \in {[NoCompetition EXCEPT !.losers = l] :
                            l \in SeqsUpTo(LoserRecords, MaxLosers)}
    /\ removalLog = EmptyRemovalLog
    /\ stage = "remove"
    /\ loserIdx = 1
    /\ firstLog = NoLog
    /\ conflicts = << >>
    /\ FreshResolver
    /\ hasCredentials = FALSE
    /\ NoComparison
    /\ NoFetch
    /\ NoBatch
    /\ NoRecover

NextRemove ==
    \/ RemoveLoser
    \/ WriteRemovalReport
    \/ RunRemoverAgain

SpecRemove == InitRemove /\ [][NextRemove]_vars

(***************************************************************************)
(* The sat comparator: SatComparator.compareFiles loads two files into     *)
(* sat -> block maps and appends to this.differences what sets them apart. *)
(***************************************************************************)
MaxEntries == 2
MaxCalls == 2

\* The sats and block heights the compared files may name.
DiffSats == {100, 200}
DiffBlocks == {5, 7}

\* An entry of an input file; Null stands for a property the entry lacks.
FileEntry(sat, block, blockheight) == [sat |-> sat, block |-> block, blockheight |-> blockheight]

\* The value JSON.parse returns for a file: an array of entries, or not.
JsonFile(isArray, entries) == [isArray |-> isArray, entries |-> entries]

\* Map.prototype.has / get / set of a Map held in insertion order.
MapHas(map, key) == \E i \in 1..Len(map) : map[i].key = key

MapGet(map, key) == IF MapHas(map, key) THEN map[CHOOSE i \in 1..Len(map) : map[i].key = key].value ELSE Null

MapSet(map, key, value) ==
    IF MapHas(map, key)
    THEN [i \in 1..Len(map) |->
             IF map[i].key = key THEN [key |-> key, value |-> value] ELSE map[i]]
    ELSE Append(map, [key |-> key, value |-> value])

\* [...map.keys()]
MapKeys(map) == [i \in 1..Len(map) |-> map[i].key]

\* JavaScript a || b on numbers and absent properties.
OrElse(a, b) == IF Falsy(a) THEN b ELSE a

\* A variant of OrElse that falls back only when the first property is absent.
OrElseIfAbsent(a, b) == IF a = Null THEN b ELSE a

\* loadFile, the loop over the entries of the array.
RECURSIVE LoadEntries(_, _)
LoadEntries(dataMap, entries) ==
    IF entries = << >> THEN dataMap
    ELSE LET entry == Head(entries)
             sat == entry.sat
             block == OrElse(entry.block, entry.blockheight)
         IN  LoadEntries(IF sat = Null \/ block = Null
                         THEN dataMap
                         ELSE MapSet(dataMap, sat, block),
                         Tail(entries))

\* loadFile: throws when the parsed file is no array.
LoadFile(file) ==
    IF ~file.isArray
    THEN [ok |-> FALSE, dataMap |-> << >>]
    ELSE [ok |-> TRUE, dataMap |-> LoadEntries(<< >>, file.entries)]

\* compareFiles: the reverse mapping block -> sat of a loaded file.
RECURSIVE BlockToSat(_, _)
BlockToSat(blockToSat, dataMap) ==
    IF dataMap = << >> THEN blockToSat
    ELSE BlockToSat(MapSet(blockToSat, Head(dataMap).value, Head(dataMap).key),
                    Tail(dataMap))

\* new Set([...a, ...b]) held in insertion order.
RECURSIVE UniqueKeys(_, _)
UniqueKeys(seen, keys) ==
    IF keys = << >> THEN seen
    ELSE UniqueKeys(IF \E i \in 1..Len(seen) : seen[i] = Head(keys)
                    THEN seen ELSE Append(seen, Head(keys)),
                    Tail(keys))

\* A variant of AllKeys that takes the keys of the first map only.
File1Keys(map1, map2) == UniqueKeys(<< >>, MapKeys(map1))

AllKeys(map1, map2) == UniqueKeys(<< >>, MapKeys(map1) \o MapKeys(map2))

\* An element of this.differences; Null stands for a property it lacks or
\* holds as null.
DiffEntry(type, sat, file1Block, file2Block, block, file1Sat, file2Sat) ==
    [type |-> type, sat |-> sat, file1Block |-> file1Block, file2Block |-> file2Block,
     block |-> block, file1Sat |-> file1Sat, file2Sat |-> file2Sat]

\* A variant of ClassifySat that also lists a matching sat.
ClassifySatListingMatches(acc, sat, file1Block, file2Block) ==
    IF file1Block # Null /\ file2Block # Null
    THEN [differences |-> Append(acc.differences,
                             DiffEntry(IF file1Block = file2Block THEN "MATCH" ELSE "CONFLICT",
                                       sat, file1Block, file2Block, Null, Null, Null)),
          stats |-> IF file1Block = file2Block
                    THEN [acc.stats EXCEPT !.matches = @ + 1]
                    ELSE [acc.stats EXCEPT !.conflicts = @ + 1]]
    ELSE IF file1Block # Null
    THEN [differences |-> Append(acc.differences,
                             DiffEntry("FILE1_ONLY", sat, file1Block, Null, Null, Null, Null)),
          stats |-> [acc.stats EXCEPT !.file1Only = @ + 1]]
    ELSE [differences |-> Append(acc.differences,
                             DiffEntry("FILE2_ONLY", sat, Null, file2Block, Null, Null, Null)),
          stats |-> [acc.stats EXCEPT !.file2Only = @ + 1]]

\* A variant of ClassifySat that lists a sat held by both files under each
\* file as well.
ClassifySatListingBothSides(acc, sat, file1Block, file2Block) ==
    IF file1Block # Null /\ file2Block # Null
    THEN IF file1Block = file2Block
         THEN [acc EXCEPT !.stats.matches = @ + 1]
         ELSE [differences |-> acc.differences \o
                   <<DiffEntry("CONFLICT", sat, file1Block, file2Block, Null, Null, Null),
                     DiffEntry("FILE1_ONLY", sat, file1Block, Null, Null, Null, Null)>>,
               stats |-> [acc.stats EXCEPT !.conflicts = @ + 1]]
    ELSE IF file1Block # Null
    THEN [differences |-> Append(acc.differences,
                             DiffEntry("FILE1_ONLY", sat, file1Block, Null, Null, Null, Null)),
          stats |-> [acc.stats EXCEPT !.file1Only = @ + 1]]
    ELSE [differences |-> Append(acc.differences,
                             DiffEntry("FILE2_ONLY", sat, Null, file2Block, Null, Null, Null)),
          stats |-> [acc.stats EXCEPT !.file2Only = @ + 1]]

\* A variant of ClassifySat that records the conflict without its blocks.
ClassifySatDroppingBlocks(acc, sat, file1Block, file2Block) ==
    IF file1Block # Null /\ file2Block # Null
    THEN IF file1Block = file2Block
         THEN [acc EXCEPT !.stats.matches = @ + 1]
         ELSE [differences |-> Append(acc.differences,
                                  DiffEntry("CONFLICT", sat, Null, Null, Null, Null, Null)),
               stats |-> [acc.stats EXCEPT !.conflicts = @ + 1]]
    ELSE IF file1Block # Null
    THEN [differences |-> Append(acc.differences,
                             DiffEntry("FILE1_ONLY", sat, file1Block, Null, Null, Null, Null)),
          stats |-> [acc.stats EXCEPT !.file1Only = @ + 1]]
    ELSE [differences |-> Append(acc.differences,
                             DiffEntry("FILE2_ONLY", sat, Null, file2Block, Null, Null, Null)),
          stats |-> [acc.stats EXCEPT !.file2Only = @ + 1]]

\* A variant of ClassifySat that lists a sat conflict without counting it.
ClassifySatNotCountingConflicts(acc, sat, file1Block, file2Block) ==
    IF file1Block # Null /\ file2Block # Null
    THEN IF file1Block = file2Block
         THEN [acc EXCEPT !.stats.matches = @ + 1]
         ELSE [acc EXCEPT !.differences =
                   Append(@, DiffEntry("CONFLICT", sat, file1Block, file2Block,
                                       Null, Null, Null))]
    ELSE IF file1Block # Null
    THEN [differences |-> Append(acc.differences,
                             DiffEntry("FILE1_ONLY", sat, file1Block, Null, Null, Null, Null)),
          stats |-> [acc.stats EXCEPT !.file1Only = @ + 1]]
    ELSE [differences |-> Append(acc.differences,
                             DiffEntry("FILE2_ONLY", sat, Null, file2Block, Null, Null, Null)),
          stats |-> [acc.stats EXCEPT !.file2Only = @ + 1]]

\* compareFiles, one iteration of the loop over allSats: file1Block and
\* file2Block are the blocks of file1Entry and file2Entry, Null for an entry
\* the file does not hold.
ClassifySat(acc, sat, file1Block, file2Block) ==
    IF file1Block # Null /\ file2Block # Null
    THEN IF file1Block = file2Block
         THEN [acc EXCEPT !.stats.matches = @ + 1]
         ELSE [differences |-> Append(acc.differences,
                                  DiffEntry("CONFLICT", sat, file1Block, file2Block,
                                            Null, Null, Null)),
               stats |-> [acc.stats EXCEPT !.conflicts = @ + 1]]
    ELSE IF file1Block # Null
    THEN [differences |-> Append(acc.differences,
                             DiffEntry("FILE1_ONLY", sat, file1Block, Null, Null, Null, Null)),
          stats |-> [acc.stats EXCEPT !.file1Only = @ + 1]]
    ELSE [differences |-> Append(acc.differences,
                             DiffEntry("FILE2_ONLY", sat, Null, file2Block, Null, Null, Null)),
          stats |-> [acc.stats EXCEPT !.file2Only = @ + 1]]

\* compareFiles, the loop over allSats.
RECURSIVE ClassifySats(_, _, _, _)
ClassifySats(acc, allSats, map1, map2) ==
    IF allSats = << >> THEN acc
    ELSE ClassifySats(ClassifySat(acc, Head(allSats), MapGet(map1, Head(allSats)),
                                  MapGet(map2, Head(allSats))),
                      Tail(allSats), map1, map2)

\* A variant of IsBlockConflict that reports a block only when file 1 names
\* the lower sat.
IsBlockConflictAscending(file1Sat, file2Sat) == ~Falsy(file1Sat) /\ ~Falsy(file2Sat) /\ file1Sat < file2Sat

\* compareFiles: file1Sat && file2Sat && file1Sat !== file2Sat.
IsBlockConflict(file1Sat, file2Sat) == ~Falsy(file1Sat) /\ ~Falsy(file2Sat) /\ file1Sat # file2Sat

\* compareFiles, the loop over allBlocks.
RECURSIVE BlockConflicts(_, _, _, _)
BlockConflicts(diffs, allBlocks, blockToSat1, blockToSat2) ==
    IF allBlocks = << >> THEN diffs
    ELSE LET block == Head(allBlocks)
             file1Sat == MapGet(blockToSat1, block)
             file2Sat == MapGet(blockToSat2, block)
         IN  BlockConflicts(IF IsBlockConflict(file1Sat, file2Sat)
                            THEN Append(diffs, DiffEntry("BLOCK_CONFLICT", Null, Null, Null,
                                                         block, file1Sat, file2Sat))
                            ELSE diffs,
                            Tail(allBlocks), blockToSat1, blockToSat2)

\* The comparator given to this.differences.sort.
CompareEntries(a, b) ==
    IF ~Falsy(a.sat) /\ ~Falsy(b.sat) THEN a.sat - b.sat
    ELSE IF ~Falsy(a.block) /\ ~Falsy(b.block) THEN a.block - b.block
    ELSE 0

\* Array.prototype.sort defines the order it leaves only for a consistent
\* comparator: equality under the comparator and both strict orders are
\* transitive on the elements of the array.
ConsistentComparator(diffs) ==
    \A i, j, k \in 1..Len(diffs) :
        LET ab == CompareEntries(diffs[i], diffs[j])
            bc == CompareEntries(diffs[j], diffs[k])
            ac == CompareEntries(diffs[i], diffs[k])
        IN  /\ (ab = 0 /\ bc = 0) => ac = 0
            /\ (ab < 0 /\ bc < 0) => ac < 0
            /\ (ab > 0 /\ bc > 0) => ac > 0

\* Array.prototype.sort under a consistent comparator: a stable sort.
RECURSIVE SortEntries(_)
SortEntries(diffs) ==
    IF diffs = << >> THEN << >>
    ELSE LET sorted == SortEntries(SubSeq(diffs, 1, Len(diffs) - 1))
             e == diffs[Len(diffs)]
             p == Cardinality({i \in 1..Len(sorted) : CompareEntries(sorted[i], e) <= 0})
         IN  SubSeq(sorted, 1, p) \o <<e>> \o SubSeq(sorted, p + 1, Len(sorted))

\* compareFiles after both files are loaded: counts, the loop over allSats,
\* the loop over allBlocks, in the order the entries are pushed.
Compare(diffs, st, map1, map2) ==
    LET counted == [st EXCEPT !.file1Count = Len(map1), !.file2Count = Len(map2)]
        blockToSat1 == BlockToSat(<< >>, map1)
        blockToSat2 == BlockToSat(<< >>, map2)
        bySat == ClassifySats([differences |-> diffs, stats |-> counted],
                              AllKeys(map1, map2), map1, map2)
    IN  [differences |-> BlockConflicts(bySat.differences,
                                        AllKeys(blockToSat1, blockToSat2),
                                        blockToSat1, blockToSat2),
         stats |-> bySat.stats]

\* compareFiles(file1Path, file2Path) on the comparator, each path naming one
\* of the two files. A file that is no array makes loadFile throw and the call
\* reject with what was assigned before. The sort runs on the whole array;
\* under a comparator that is not consistent on it the order is left to the
\* implementation: differences then holds the entries in the order they were
\* pushed and orderDefined is FALSE.
CompareFiles ==
    /\ calls < MaxCalls
    /\ \E p1, p2 \in 1..2 :
          LET l1 == LoadFile(inputFiles[p1])
              l2 == LoadFile(inputFiles[p2])
              r == Compare(differences, stats, l1.dataMap, l2.dataMap)
          IN  /\ lastCall' = [file1Path |-> p1, file2Path |-> p2,
                              rejected |-> ~(l1.ok /\ l2.ok)]
              /\ file1Data' = IF l1.ok THEN l1.dataMap ELSE file1Data
              /\ file2Data' = IF l1.ok /\ l2.ok THEN l2.dataMap ELSE file2Data
              /\ IF l1.ok /\ l2.ok
                 THEN /\ stats' = r.stats
                      /\ orderDefined' = ConsistentComparator(r.differences)
                      /\ differences' = IF ConsistentComparator(r.differences)
                                        THEN SortEntries(r.differences)
                                        ELSE r.differences
                 ELSE UNCHANGED <<stats, differences, orderDefined>>
    /\ calls' = calls + 1
    /\ UNCHANGED <<resolverVars, dupVars, fetchVars, batchVars, recoverVars, inputFiles>>

\* The entries of the compared files: a sat and its height under block.
DiffEntries == {FileEntry(s, b, Null) : s \in DiffSats, b \in DiffBlocks}

\* The entries loadFile may meet: the sat, block and blockheight properties
\* present or absent, the height possibly 0.
RawEntries == {FileEntry(s, b, h) : s \in DiffSats \cup {Null}, b \in DiffBlocks \cup {0, Null}, h \in {0, 5, Null}}

\* No resolver run.
NoResolver == conflicts = << >> /\ FreshResolver /\ hasCredentials = FALSE

\* A new SatComparator and two files of up to MaxEntries entries.
InitDiff ==
    /\ inputFiles \in [1..2 -> {JsonFile(TRUE, l) : l \in SeqsUpTo(DiffEntries, MaxEntries)}]
    /\ FreshComparator
    /\ NoResolver
    /\ NoFetch
    /\ NoBatch
    /\ NoRecover
    /\ NoPipeline

\* A new SatComparator, a first file that is anything JSON.parse may return
\* and a second file that is an empty array or no array.
InitLoad ==
    /\ \E f1 \in {JsonFile(TRUE, l) : l \in SeqsUpTo(RawEntries, MaxEntries)} \cup {JsonFile(FALSE, << >>)}, a2 \in BOOLEAN :
          inputFiles = <<f1, JsonFile(a2, << >>)>>
    /\ FreshComparator
    /\ NoResolver
    /\ NoFetch
    /\ NoBatch
    /\ NoRecover
    /\ NoPipeline

NextDiff == CompareFiles

SpecDiff == InitDiff /\ [][NextDiff]_vars

SpecLoad == InitLoad /\ [][NextDiff]_vars

(***************************************************************************)
(* fetchFromAPI and fetchJSONWithRetry, one HTTP attempt per step.         *)
(***************************************************************************)
MaxFetches == 2
MaxRedirects == 1

\* Math.random() * 50, the least and the greatest whole number of ms.
Jitters == {0, 49}

\* An invocation of fetchJSONWithRetry: its url, the attempt in flight and
\* the delays it has slept.
Frame(url) == [url |-> url, attempt |-> 1, waits |-> << >>]

\* fetchJSONWithRetry: the delay slept after failed attempt number attempt.
BackoffDelay(attempt, jitter) == 100 * 2^(attempt - 1) + jitter

\* fetchJSONWithRetry after a failed attempt of the innermost invocation: an
\* invocation on its last attempt throws, which rejects the attempt of the
\* invocation that followed a redirect to it; the first invocation with an
\* attempt left sleeps and goes on. The empty stack: the outermost
\* invocation threw.
RECURSIVE Unwind(_, _)
Unwind(st, jitter) ==
    IF st = << >> THEN << >>
    ELSE LET top == st[Len(st)]
             below == SubSeq(st, 1, Len(st) - 1)
         IN  IF top.attempt = Retries
             THEN Unwind(below, jitter)
             ELSE Append(below, [top EXCEPT !.attempt = @ + 1,
                                            !.waits = Append(@, BackoffDelay(top.attempt, jitter))])

\* A caller invokes fetchFromAPI.
StartFetchFromAPI ==
    /\ fpc = "idle" /\ call.n < MaxFetches
    /\ fpc' = "loop"
    /\ call' = [n |-> call.n + 1, i |-> activeApiIndex, second |-> FALSE,
                result |-> "none", error |-> "none"]
    /\ trace' = [trace EXCEPT !.unauthRetries = 0]
    /\ stack' = << >>
    /\ UNCHANGED <<conflicts, idx, results, pc, cur, obs, prev, providerVars,
                   hasCredentials, dupVars, diffVars, batchVars, recoverVars, quotaDue>>

\* fetchFromAPI, the head of one iteration of its loop, or the throw after it:
\* the credential is refreshed and verified for blockstream, the quota window
\* is reset when it elapsed, an exhausted provider is skipped, otherwise
\* fetchJSONWithRetry is invoked.
FetchFromAPILoop ==
    /\ fpc = "loop"
    /\ LET i == call.i
       IN  IF i >= NumApis
           THEN /\ fpc' = "idle"
                /\ call' = [call EXCEPT !.result = "throw"]
                /\ UNCHANGED <<stack, trace, activeApiIndex, exhausted,
                               blockstreamAuthHeader, blockstreamVerified, quotaDue>>
           ELSE \E elapsed \in {quotaDue[i]},
                   verify \in (IF i = 1 /\ hasCredentials /\ ~blockstreamVerified
                               THEN {"ok", "e401", "err"} ELSE {"skip"}) :
                LET auth0 == IF i = 1 THEN hasCredentials ELSE blockstreamAuthHeader
                    exh0 == IF elapsed THEN [exhausted EXCEPT ![i] = FALSE] ELSE exhausted
                IN  /\ blockstreamAuthHeader' = IF verify = "e401" THEN FALSE ELSE auth0
                    /\ blockstreamVerified' = IF verify = "ok" THEN TRUE
                                              ELSE IF verify = "e401" THEN FALSE
                                              ELSE blockstreamVerified
                    /\ exhausted' = exh0
                    /\ quotaDue' = [quotaDue EXCEPT ![i] = FALSE]
                    /\ UNCHANGED activeApiIndex
                    /\ IF exh0[i]
                       THEN /\ call' = [call EXCEPT !.i = i + 1]
                            /\ UNCHANGED <<fpc, stack>>
                            /\ trace' = [trace EXCEPT
                                   !.authAfterClear = @ \/ (trace.cleared /\ verify # "skip"),
                                   !.cleared = @ \/ verify = "e401"]
                       ELSE /\ fpc' = "http"
                            /\ stack' = <<Frame("url")>>
                            /\ UNCHANGED call
                            /\ trace' = [trace EXCEPT
                                   !.attempts = [u \in Urls |-> 0],
                                   !.authAfterClear = @ \/ (trace.cleared /\ verify # "skip"),
                                   !.cleared = @ \/ verify = "e401"]
    /\ UNCHANGED <<conflicts, idx, results, pc, cur, obs, prev, blockCache,
                   hasCredentials, dupVars, diffVars, batchVars, recoverVars>>

\* One HTTP attempt of the innermost fetchJSONWithRetry invocation and what
\* follows it without a further request: a 3xx answer starts an invocation
\* on the location, a 200 answer resolves every invocation and fetchFromAPI
\* returns, a failure is caught by the retry loop and, when the outermost
\* invocation throws, by the catch of fetchFromAPI.
HttpAttempt ==
    /\ fpc = "http"
    /\ LET top == stack[Len(stack)]
           i == call.i
           blockstream == ApiName(i) = "blockstream"
           auth == blockstream /\ blockstreamAuthHeader
           bumped == Max(activeApiIndex, i + 1)
       IN  \E out \in AttemptOutcomes \cup (IF Len(stack) <= MaxRedirects THEN {"redirect"} ELSE {}),
              location \in Urls, jitter \in Jitters :
           LET cleared == out = "e401" /\ blockstream
               sent == [trace EXCEPT
                          !.attempts[top.url] = @ + 1,
                          !.lastAttempt = out,
                          !.thrown = "none",
                          !.authAfterClear = @ \/ (auth /\ trace.cleared),
                          !.cleared = @ \/ (cleared /\ auth),
                          !.unauthRetries = IF blockstream /\ ~auth /\ trace.cleared
                                                /\ call.error = "denied"
                                            THEN @ + 1 ELSE @]
               denied == IF out = "e401" /\ auth THEN "denied" ELSE call.error
               unwound == Unwind(stack, jitter)
               Continue(exhaust) ==
                   /\ fpc' = "loop"
                   /\ stack' = << >>
                   /\ call' = [call EXCEPT !.i = i + 1, !.second = FALSE, !.error = denied]
                   /\ exhausted' = IF exhaust THEN [exhausted EXCEPT ![i] = TRUE] ELSE exhausted
                   /\ activeApiIndex' = IF exhaust THEN bumped ELSE activeApiIndex
           IN  /\ blockstreamAuthHeader' = IF cleared THEN FALSE ELSE blockstreamAuthHeader
               /\ blockstreamVerified' = IF cleared THEN FALSE ELSE blockstreamVerified
               /\ IF out = "redirect"
                  THEN /\ stack' = Append(stack, Frame(location))
                       /\ trace' = sent
                       /\ UNCHANGED <<fpc, call, exhausted, activeApiIndex>>
                  ELSE IF out = "ok"
                  THEN /\ stack' = << >>
                       /\ fpc' = "idle"
                       /\ call' = [call EXCEPT !.result = "data"]
                       /\ trace' = sent
                       /\ UNCHANGED <<exhausted, activeApiIndex>>
                  ELSE IF unwound # << >>
                  THEN /\ stack' = unwound
                       /\ trace' = sent
                       /\ call' = [call EXCEPT !.error = denied]
                       /\ UNCHANGED <<fpc, exhausted, activeApiIndex>>
                  ELSE IF call.second
                  THEN /\ trace' = [sent EXCEPT !.thrown = out]
                       /\ Continue(TRUE)
                  ELSE IF out = "e429"
                  THEN /\ trace' = [sent EXCEPT !.thrown = out]
                       /\ Continue(TRUE)
                  ELSE IF blockstream /\ out = "e401"
                  THEN /\ trace' = [sent EXCEPT !.thrown = out, !.attempts = [u \in Urls |-> 0]]
                       /\ stack' = <<Frame("url")>>
                       /\ call' = [call EXCEPT !.second = TRUE, !.error = denied]
                       /\ UNCHANGED <<fpc, exhausted, activeApiIndex>>
                  ELSE /\ trace' = [sent EXCEPT !.thrown = out]
                       /\ Continue(FALSE)
    /\ UNCHANGED <<conflicts, idx, results, pc, cur, obs, prev, blockCache,
                   hasCredentials, dupVars, diffVars, batchVars, recoverVars, quotaDue>>

\* An hour passes: Date.now() is past the resetAt of every counter.
HourPasses ==
    /\ \E i \in DOMAIN quotaDue : ~quotaDue[i]
    /\ quotaDue' = [i \in DOMAIN quotaDue |-> TRUE]
    /\ UNCHANGED <<resolverVars, dupVars, diffVars, batchVars, recoverVars, fpc, call,
                   stack, trace>>

\* A new resolver; fetchFromAPI is invoked up to MaxFetches times.
InitFetch ==
    /\ conflicts = << >>
    /\ FreshResolver
    /\ NoPipeline
    /\ NoComparison
    /\ NoFetch
    /\ NoBatch
    /\ NoRecover

NextFetch ==
    \/ StartFetchFromAPI
    \/ FetchFromAPILoop
    \/ HttpAttempt
    \/ HourPasses

SpecFetch == InitFetch /\ [][NextFetch]_vars

\* ---------------------------------------------------------------------------
\* The batch reconciler: RegistryComparator of validator.mjs.
\* ---------------------------------------------------------------------------

\* The sat_*.json names a registry directory may list, as readdirSync and
\* sort() order them.
FileNames == <<"sat_a.json", "sat_b.json">>

Sources == {1, 2}

PartitionSize == 10000
MaxRegistryBlock == 999999999

\* getRegistryFileForBlock(block): the partition file, named by its first block.
GetRegistryFileForBlock(block) ==
    IF block < 0 \/ block > MaxRegistryBlock THEN Null
    ELSE (block \div PartitionSize) * PartitionSize

\* A sat_*.json file of one registry: absent, or parsed to this value.
RepoFile(present, file) == [present |-> present, file |-> file]

\* An element of a partition file <start>-<end>.json.
RegistryEntry(block, iD) == [block |-> block, iD |-> iD]

RECURSIVE Ascending(_)
Ascending(S) ==
    IF S = {} THEN << >>
    ELSE LET m == CHOOSE x \in S : \A y \in S : x <= y
         IN  <<m>> \o Ascending(S \ {m})

\* What readRegistryFile may give for a partition file of a source: it throws,
\* or returns the parsed JSON, an array of entries or not.
FetchOutcomes(source) ==
    LET iD == IF source = 1 THEN "aai0" ELSE "bbi0"
        data == {JsonFile(FALSE, << >>)} \cup
                {JsonFile(TRUE, [k \in 1..Cardinality(S) |-> RegistryEntry(Ascending(S)[k], iD)]) :
                     S \in SUBSET DiffBlocks}
    IN  {[ok |-> FALSE, data |-> JsonFile(FALSE, << >>)]} \cup
        {[ok |-> TRUE, data |-> d] : d \in data}

\* An element of allBlockConflicts: a BLOCK_CONFLICT entry of a comparison or
\* the object built for an inter-file conflict; the identities are added by
\* the lookup loop.
BlockConflict(block, file1Sat, file2Sat, isInterFileConflict) ==
    [block |-> block, file1Sat |-> file1Sat, file2Sat |-> file2Sat,
     isInterFileConflict |-> isInterFileConflict, repo1Id |-> NoId, repo2Id |-> NoId]

\* getRegistryFiles: the names of the files present, sorted.
GetRegistryFiles(repo) == SelectSeq(FileNames, LAMBDA f : repo[f].present)

\* comparator.compareFiles on two loaded files: comparator.differences.
FileDifferences(map1, map2) ==
    LET r == Compare(<< >>, FreshStats, map1, map2)
    IN  IF ConsistentComparator(r.differences) THEN SortEntries(r.differences)
        ELSE r.differences

\* generateReport, the inner forEach over result.differences without the
\* conflictMap test.
RECURSIVE CollectEveryConflict(_, _)
CollectEveryConflict(acc, diffs) ==
    IF diffs = << >> THEN acc
    ELSE LET d == Head(diffs)
         IN  CollectEveryConflict(
                 IF d.type = "BLOCK_CONFLICT"
                 THEN Append(acc, BlockConflict(d.block, d.file1Sat, d.file2Sat, FALSE))
                 ELSE acc,
                 Tail(diffs))

\* generateReport, the inner forEach over result.differences: conflictMap
\* holds the blocks of the entries pushed so far.
RECURSIVE CollectConflicts(_, _)
CollectConflicts(acc, diffs) ==
    IF diffs = << >> THEN acc
    ELSE LET d == Head(diffs)
             keep == d.type = "BLOCK_CONFLICT"
                     /\ ~\E k \in 1..Len(acc) : acc[k].block = d.block
         IN  CollectConflicts(
                 IF keep
                 THEN Append(acc, BlockConflict(d.block, d.file1Sat, d.file2Sat, FALSE))
                 ELSE acc,
                 Tail(diffs))

\* generateReport: repo1BlockToSat (side 1) or repo2BlockToSat (side 2) after
\* the FILE1_ONLY (FILE2_ONLY) entries of one result.
RECURSIVE RepoBlockToSat(_, _, _)
RepoBlockToSat(map, diffs, side) ==
    IF diffs = << >> THEN map
    ELSE LET d == Head(diffs)
             block == IF side = 1 THEN d.file1Block ELSE d.file2Block
             mine == d.type = (IF side = 1 THEN "FILE1_ONLY" ELSE "FILE2_ONLY")
         IN  RepoBlockToSat(
                 IF mine /\ ~Falsy(block) /\ ~Falsy(d.sat) THEN MapSet(map, block, d.sat)
                 ELSE map,
                 Tail(diffs), side)

\* generateReport: this.results.forEach.
RECURSIVE CollectResults(_, _)
CollectResults(acc, rs) ==
    IF rs = << >> THEN acc
    ELSE LET r == Head(rs)
         IN  CollectResults(
                 [list |-> CollectConflicts(acc.list, r.differences),
                  repo1 |-> RepoBlockToSat(acc.repo1, r.differences, 1),
                  repo2 |-> RepoBlockToSat(acc.repo2, r.differences, 2)],
                 Tail(rs))

\* generateReport: the loop over allBlocksFromBothRepos.
RECURSIVE InterFileConflicts(_, _, _, _)
InterFileConflicts(list, blocks, repo1, repo2) ==
    IF blocks = << >> THEN list
    ELSE LET block == Head(blocks)
             repo1Sat == MapGet(repo1, block)
             repo2Sat == MapGet(repo2, block)
             push == IsBlockConflict(repo1Sat, repo2Sat)
                     /\ ~\E k \in 1..Len(list) : list[k].block = block
         IN  InterFileConflicts(
                 IF push THEN Append(list, BlockConflict(block, repo1Sat, repo2Sat, TRUE))
                 ELSE list,
                 Tail(blocks), repo1, repo2)

\* allBlockConflicts.sort((a, b) => a.block - b.block): a stable sort.
RECURSIVE SortByBlock(_)
SortByBlock(list) ==
    IF list = << >> THEN << >>
    ELSE LET sorted == SortByBlock(SubSeq(list, 1, Len(list) - 1))
             e == list[Len(list)]
             p == Cardinality({i \in 1..Len(sorted) : sorted[i].block <= e.block})
         IN  SubSeq(sorted, 1, p) \o <<e>> \o SubSeq(sorted, p + 1, Len(sorted))

\* generateReport: allBlockConflicts as assigned to this.allBlockConflicts.
AllBlockConflicts(rs) ==
    LET c == CollectResults([list |-> << >>, repo1 |-> << >>, repo2 |-> << >>], rs)
    IN  SortByBlock(InterFileConflicts(c.list, AllKeys(c.repo1, c.repo2), c.repo1, c.repo2))

\* The BLOCK_CONFLICT entries of the results that were not pushed to
\* allBlockConflicts, in the order the critical-files section meets them;
\* the lookup loop gave them no repo1Id.
RECURSIVE Discarded(_, _)
Discarded(seen, diffs) ==
    IF diffs = << >> THEN << >>
    ELSE LET d == Head(diffs)
         IN  IF d.type # "BLOCK_CONFLICT" THEN Discarded(seen, Tail(diffs))
             ELSE IF d.block \in seen THEN <<d>> \o Discarded(seen, Tail(diffs))
             ELSE Discarded(seen \cup {d.block}, Tail(diffs))

RECURSIVE AllDifferences(_)
AllDifferences(rs) ==
    IF rs = << >> THEN << >> ELSE Head(rs).differences \o AllDifferences(Tail(rs))

\* fetchRegistryFile(repoBase, filename) when readRegistryFile, if called,
\* ends as outcome says: the data returned, the cache and the count of
\* readRegistryFile calls afterwards.
FetchRegistryFile(cache, counts, source, filename, outcome) ==
    LET cacheKey == <<source, filename>>
        sent == [counts EXCEPT ![cacheKey] = @ + 1]
    IN  IF MapHas(cache, cacheKey)
        THEN [data |-> MapGet(cache, cacheKey), cache |-> cache, counts |-> counts]
        ELSE IF outcome.ok
        THEN [data |-> outcome.data, cache |-> MapSet(cache, cacheKey, outcome.data),
              counts |-> sent]
        ELSE [data |-> JsonFile(TRUE, << >>), cache |-> cache, counts |-> sent]

\* getInscriptionIdForBlock(block, repoBase): registryData.find throws when
\* the data is no array.
GetInscriptionIdForBlock(cache, counts, block, source, outcome) ==
    LET registryFile == GetRegistryFileForBlock(block)
        f == FetchRegistryFile(cache, counts, source, registryFile, outcome)
        hits == {k \in 1..Len(f.data.entries) : f.data.entries[k].block = block}
    IN  IF registryFile = Null
        THEN [threw |-> FALSE, iD |-> NoId, cache |-> cache, counts |-> counts]
        ELSE IF ~f.data.isArray
        THEN [threw |-> TRUE, iD |-> NoId, cache |-> f.cache, counts |-> f.counts]
        ELSE [threw |-> FALSE, cache |-> f.cache, counts |-> f.counts,
              iD |-> IF hits = {} THEN NoId
                     ELSE f.data.entries[CHOOSE k \in hits : \A m \in hits : k <= m].iD]

\* The id as the lookup returned it.
OrNull(iD) == iD

\* id || 'ID not found'
OrNotFound(iD) == IF iD = NoId THEN IdNotFound ELSE iD

\* Where run() stands once the lookups of generateReport are through.
AfterLookups(rs) ==
    IF Discarded({}, AllDifferences(rs)) = << >> THEN [stage |-> "done", i |-> 0]
    ELSE [stage |-> "critical", i |-> 1]

\* run(), up to the loop over filesToCompare; getRegistryFiles throws when a
\* listing cannot be read and run() ends in its catch.
ListFiles ==
    /\ bpc.stage = "list"
    /\ \E listed \in BOOLEAN :
          LET repo1Files == GetRegistryFiles(repos[1])
              repo2Files == GetRegistryFiles(repos[2])
              filesInBoth == SelectSeq(repo1Files,
                                       LAMBDA f : \E k \in 1..Len(repo2Files) : repo2Files[k] = f)
          IN  IF ~listed
              THEN /\ bpc' = [stage |-> "fatal", i |-> 0]
                   /\ UNCHANGED <<filesToCompare, warned>>
              ELSE /\ filesToCompare' = filesInBoth
                   /\ warned' = (Len(filesInBoth) # Len(repo1Files))
                   /\ bpc' = [stage |-> IF filesInBoth = << >> THEN "report" ELSE "compare",
                              i |-> 1]
    /\ UNCHANGED <<resolverVars, dupVars, diffVars, fetchVars, recoverVars, repos, fileResults,
                   allBlockConflicts, registryCache, fetched, criticalIds>>

\* compareFilePair(filesToCompare[i]): one iteration of the loop of run().
CompareFilePair ==
    /\ bpc.stage = "compare"
    /\ LET filename == filesToCompare[bpc.i]
           l1 == LoadFile(repos[1][filename].file)
           l2 == LoadFile(repos[2][filename].file)
           diffs == FileDifferences(l1.dataMap, l2.dataMap)
           result == IF l1.ok /\ l2.ok
                     THEN [filename |-> filename, error |-> FALSE,
                           hasDifferences |-> diffs # << >>,
                           differences |-> diffs]
                     ELSE [filename |-> filename, error |-> TRUE,
                           hasDifferences |-> FALSE, differences |-> << >>]
       IN  fileResults' = Append(fileResults, result)
    /\ bpc' = IF bpc.i < Len(filesToCompare) THEN [bpc EXCEPT !.i = @ + 1]
              ELSE [stage |-> "report", i |-> 1]
    /\ UNCHANGED <<resolverVars, dupVars, diffVars, fetchVars, recoverVars, repos, filesToCompare,
                   warned, allBlockConflicts, registryCache, fetched, criticalIds>>

\* RegistryComparator.generateReport, up to the first lookup.
GenerateBatchReport ==
    /\ bpc.stage = "report"
    /\ allBlockConflicts' = AllBlockConflicts(fileResults)
    /\ bpc' = IF AllBlockConflicts(fileResults) = << >> THEN AfterLookups(fileResults)
              ELSE [stage |-> "lookup", i |-> 1]
    /\ UNCHANGED <<resolverVars, dupVars, diffVars, fetchVars, recoverVars, repos, filesToCompare,
                   warned, fileResults, registryCache, fetched, criticalIds>>

\* generateReport: one iteration of the loop fetching the inscription IDs.
LookupIds ==
    /\ bpc.stage = "lookup"
    /\ \E o1 \in FetchOutcomes(1), o2 \in FetchOutcomes(2) :
          LET diff == allBlockConflicts[bpc.i]
              l1 == GetInscriptionIdForBlock(registryCache, fetched, diff.block, 1, o1)
              l2 == GetInscriptionIdForBlock(l1.cache, l1.counts, diff.block, 2, o2)
              last == IF l1.threw THEN l1 ELSE l2
              threw == l1.threw \/ l2.threw
          IN  /\ allBlockConflicts' =
                     [allBlockConflicts EXCEPT ![bpc.i] =
                         [diff EXCEPT !.repo1Id = IF threw THEN LookupError ELSE OrNotFound(l1.iD),
                                      !.repo2Id = IF threw THEN LookupError ELSE OrNotFound(l2.iD)]]
              /\ registryCache' = last.cache
              /\ fetched' = last.counts
    /\ bpc' = IF bpc.i < Len(allBlockConflicts) THEN [bpc EXCEPT !.i = @ + 1]
              ELSE AfterLookups(fileResults)
    /\ UNCHANGED <<resolverVars, dupVars, diffVars, fetchVars, recoverVars, repos, filesToCompare,
                   warned, fileResults, criticalIds>>

\* generateReport, the critical-files section: the lookups for one block
\* conflict that has no repo1Id. A lookup that throws rejects generateReport
\* and run() ends in its catch.
CriticalLookup ==
    /\ bpc.stage = "critical"
    /\ \E o1 \in FetchOutcomes(1), o2 \in FetchOutcomes(2) :
          LET pending == Discarded({}, AllDifferences(fileResults))
              diff == pending[bpc.i]
              l1 == GetInscriptionIdForBlock(registryCache, fetched, diff.block, 1, o1)
              l2 == GetInscriptionIdForBlock(l1.cache, l1.counts, diff.block, 2, o2)
              last == IF l1.threw THEN l1 ELSE l2
          IN  /\ criticalIds' =
                     Append(criticalIds,
                            [block |-> diff.block,
                             repo1Id |-> IF l1.threw THEN NoId ELSE OrNotFound(l1.iD),
                             repo2Id |-> IF l1.threw \/ l2.threw THEN NoId
                                         ELSE OrNotFound(l2.iD)])
              /\ registryCache' = last.cache
              /\ fetched' = last.counts
              /\ bpc' = IF l1.threw \/ l2.threw THEN [stage |-> "fatal", i |-> 0]
                        ELSE IF bpc.i < Len(pending) THEN [bpc EXCEPT !.i = @ + 1]
                        ELSE [stage |-> "done", i |-> 0]
    /\ UNCHANGED <<resolverVars, dupVars, diffVars, fetchVars, recoverVars, repos, filesToCompare,
                   warned, fileResults, allBlockConflicts>>

\* The files a registry may hold under one name: none, one that is no array,
\* an empty one, or one of a single entry.
RepoFiles ==
    {RepoFile(FALSE, JsonFile(FALSE, << >>)), RepoFile(TRUE, JsonFile(FALSE, << >>)),
     RepoFile(TRUE, JsonFile(TRUE, << >>))}
    \cup {RepoFile(TRUE, JsonFile(TRUE, <<e>>)) : e \in DiffEntries}

\* A RegistryComparator just constructed, over any two registries.
InitBatch ==
    /\ NoResolver
    /\ NoPipeline
    /\ NoComparison
    /\ NoFetch
    /\ NoRecover
    /\ repos \in [Sources -> [{FileNames[k] : k \in 1..Len(FileNames)} -> RepoFiles]]
    /\ bpc = [stage |-> "list", i |-> 0]
    /\ filesToCompare = << >>
    /\ warned = FALSE
    /\ fileResults = << >>
    /\ allBlockConflicts = << >>
    /\ registryCache = << >>
    /\ fetched = [k \in Sources \X {GetRegistryFileForBlock(b) : b \in DiffBlocks} |-> 0]
    /\ criticalIds = << >>

NextBatch ==
    \/ ListFiles
    \/ CompareFilePair
    \/ GenerateBatchReport
    \/ LookupIds
    \/ CriticalLookup

SpecBatch == InitBatch /\ [][NextBatch]_vars

(***************************************************************************)
(* Properties of the duplicate pipeline.                                   *)
(***************************************************************************)
\* A record whose sat is the authoritative sat of its block.
Authoritative(record) == LoadRegistryIndex(canonical)[record.block] = record.sat

\* C1: no step of the competition and remover stages discards a
\* legitimately-first claim: every record {sat, block} of a sat_*.json file
\* whose sat is the authoritative sat of its block is still in that file
\* after the step, whatever the loser list (a sat may be the winner of one
\* block and a listed loser of another).
C1_AuthoritativeRecordsKept ==
    [][\A k \in 1..Len(registry) :
          \A i \in 1..Len(registry[k].content) :
             Authoritative(registry[k].content[i]) =>
                \E j \in 1..Len(registry'[k].content) :
                   registry'[k].content[j] = registry[k].content[i]]_vars

(***************************************************************************)
(* Properties of the resolver.                                             *)
(***************************************************************************)
\* The verdict pushed last, its conflict; obs holds what its resolution saw.
HasVerdict == Len(results) > 0
LastVerdict == results[Len(results)]
LastConflict == conflicts[Len(results)]

\* The last verdict came from comparing two ledger positions.
ComparedDifferent == HasVerdict /\ obs.path = "diff"
ComparedIdentical == HasVerdict /\ obs.path = "same" /\ obs.lk = 2

BothHeights == obs.tx1.blockHeight # Null /\ obs.tx2.blockHeight # Null
BothPositions == obs.tx1.blockPosition # Null /\ obs.tx2.blockPosition # Null

\* C2: the resolver never declares a winner whose inscription blockHeight is
\* strictly greater than the loser's when both heights are non-null, and the
\* side with the lower non-null height wins outright whatever the positions;
\* in the main procedure (tx1 is repo1's inscription, tx2 repo2's) and in the
\* identical-identity sub-protocol (tx1 is the correct side's inscription,
\* tx2 the one found on the remaining sat).
C2_LowerHeightWins ==
    /\ (ComparedDifferent /\ BothHeights) =>
          /\ obs.tx1.blockHeight < obs.tx2.blockHeight => LastVerdict.winner = "REPO1"
          /\ obs.tx2.blockHeight < obs.tx1.blockHeight => LastVerdict.winner = "REPO2"
          /\ LastVerdict.winner = "REPO1" => obs.tx1.blockHeight <= obs.tx2.blockHeight
          /\ LastVerdict.winner = "REPO2" => obs.tx2.blockHeight <= obs.tx1.blockHeight
    /\ (ComparedIdentical /\ BothHeights) =>
          /\ obs.tx1.blockHeight < obs.tx2.blockHeight =>
                LastVerdict.winner = obs.correctRepo
          /\ obs.tx2.blockHeight < obs.tx1.blockHeight =>
                LastVerdict.winner = OtherRepo(obs.correctRepo)
          /\ LastVerdict.winner \in {"REPO1", "REPO2"}

\* C2 witness: repo1's inscription in block 1 at position 1 beats repo2's in
\* block 2 at position 0.
C2_Witness ==
    /\ ComparedDifferent
    /\ obs.tx1 = LedgerPosition(1, 1) /\ obs.tx2 = LedgerPosition(2, 0)
    /\ LastVerdict.winner = "REPO1"
    /\ LastVerdict.reason = "Inscribed in block (before block)"
    /\ LastVerdict.x = 1 /\ LastVerdict.y = 2

\* C3: when both sides carry the 'ID not found' sentinel the verdict is
\* NEITHER, decided before the same-identity rule: no identical-identity
\* validation runs and no provider request is made for such a conflict.
C3_BothMissingIsNeither ==
    /\ (idx <= Len(conflicts)
        /\ conflicts[idx].repo1Id = IdNotFound /\ conflicts[idx].repo2Id = IdNotFound)
          => pc = "idle"
    /\ (HasVerdict /\ LastConflict.repo1Id = IdNotFound /\ LastConflict.repo2Id = IdNotFound)
          => /\ LastVerdict.winner = "NEITHER"
             /\ obs.path = "notfound"
             /\ ~obs.requested

\* C4: a conflict one of whose ledger-position look-ups failed because every
\* provider failed gets the verdict UNKNOWN, and run() ends with one verdict
\* for every conflict of the list.
C4_ProviderFailureIsUnknown ==
    /\ (HasVerdict /\ (obs.fail1 = "providers" \/ obs.fail2 = "providers"))
          => LastVerdict.winner = "UNKNOWN"
    /\ pc = "done" =>
          /\ Len(results) = Len(conflicts)
          /\ \A k \in 1..Len(conflicts) : results[k].block = conflicts[k].block

\* Rule 4 of the main procedure between two ledger positions a and b: "a" or
\* "b" wins, or neither resolves.
Rule4(a, b) ==
    IF a.blockHeight # Null /\ b.blockHeight # Null /\ a.blockHeight < b.blockHeight THEN "a"
    ELSE IF a.blockHeight # Null /\ b.blockHeight # Null /\ b.blockHeight < a.blockHeight THEN "b"
    ELSE IF a.blockHeight # Null /\ b.blockHeight # Null
            /\ a.blockPosition # Null /\ b.blockPosition # Null
            /\ a.blockPosition < b.blockPosition THEN "a"
    ELSE IF a.blockHeight # Null /\ b.blockHeight # Null
            /\ a.blockPosition # Null /\ b.blockPosition # Null
            /\ b.blockPosition < a.blockPosition THEN "b"
    ELSE IF a.blockHeight # Null /\ b.blockHeight = Null THEN "a"
    ELSE IF b.blockHeight # Null /\ a.blockHeight = Null THEN "b"
    ELSE "unknown"

\* C5: in the identical-identity sub-protocol, once a valid inscription was
\* found on the other side's sat, the winner is the one rule 4 gives for the
\* two inscriptions' ledger positions: earlier height, then earlier position,
\* a confirmed inscription beats an unconfirmed one, UNKNOWN if neither
\* resolves.
C5_IdenticalFollowsRule4 ==
    ComparedIdentical =>
        LastVerdict.winner =
            (IF Rule4(obs.tx1, obs.tx2) = "a" THEN obs.correctRepo
             ELSE IF Rule4(obs.tx1, obs.tx2) = "b" THEN OtherRepo(obs.correctRepo)
             ELSE "UNKNOWN")

\* The actual sat equals side 1's / side 2's claimed sat.
Sat1Matches == obs.actualSat = SatToString(LastConflict.file1Sat)
Sat2Matches == obs.actualSat = SatToString(LastConflict.file2Sat)

\* C6: in the identical-identity sub-protocol, when the actual sat equals
\* exactly one side's claimed sat and no inscription with content
\* "<block>.bitmap" is found on the other side's sat (none is found when the
\* sat carries none), the matching side wins outright, the reason stating
\* that the remaining sat has no valid bitmap inscription.
C6_NoValidInscriptionCorrectWins ==
    (HasVerdict /\ obs.path = "same" /\ obs.actualSat # NoSat
     /\ (Sat1Matches # Sat2Matches))
        => /\ ~obs.validOnSat => obs.remainingId = NoId
           /\ obs.remainingId = NoId =>
                 /\ LastVerdict.winner = (IF Sat1Matches THEN "REPO1" ELSE "REPO2")
                 /\ LastVerdict.inscriptionId =
                       (IF Sat1Matches THEN LastConflict.repo1Id
                        ELSE LastConflict.repo2Id)
                 /\ LastVerdict.reason =
                       "Correct sat, remaining sat has no valid bitmap inscription"

\* C6 witness: side 2 claimed the actual sat, nothing valid on side 1's sat.
C6_Witness ==
    /\ HasVerdict /\ obs.path = "same" /\ obs.actualSat # NoSat
    /\ Sat2Matches /\ ~Sat1Matches /\ ~obs.validOnSat /\ obs.remainingId = NoId
    /\ LastConflict.repo1Id \in ValidIds
    /\ LastVerdict.winner = "REPO2"

\* C7: in the identical-identity sub-protocol the verdict is BOTH when both
\* claimed sats equal the actual sat, and UNKNOWN when neither does or the
\* actual sat cannot be determined.
C7_BothOrUnknown ==
    (HasVerdict /\ obs.path = "same") =>
        /\ (obs.actualSat # NoSat /\ Sat1Matches /\ Sat2Matches)
              => LastVerdict.winner = "BOTH"
        /\ (obs.actualSat = NoSat \/ (~Sat1Matches /\ ~Sat2Matches))
              => LastVerdict.winner = "UNKNOWN"

\* C7 witness: both sides claim the actual sat (one as a number, one as a
\* string).
C7_Witness ==
    /\ HasVerdict /\ obs.path = "same" /\ obs.actualSat # NoSat
    /\ Sat1Matches /\ Sat2Matches
    /\ LastVerdict.winner = "BOTH"

\* C8: with both heights non-null and equal, the side with the lower non-null
\* blockPosition wins.
C8_LowerPositionWins ==
    (ComparedDifferent /\ BothHeights /\ BothPositions
     /\ obs.tx1.blockHeight = obs.tx2.blockHeight) =>
        /\ obs.tx1.blockPosition < obs.tx2.blockPosition =>
              /\ LastVerdict.winner = "REPO1"
              /\ LastVerdict.inscriptionId = LastConflict.repo1Id
        /\ obs.tx2.blockPosition < obs.tx1.blockPosition =>
              /\ LastVerdict.winner = "REPO2"
              /\ LastVerdict.inscriptionId = LastConflict.repo2Id

\* C8 witness: same block, repo2's transaction comes first.
C8_Witness ==
    /\ ComparedDifferent
    /\ obs.tx1 = LedgerPosition(2, 1) /\ obs.tx2 = LedgerPosition(2, 0)
    /\ LastVerdict.winner = "REPO2"

\* C9: for different identities, a side with a non-null height beats a side
\* whose height is null; when neither side resolves to an ordering (both
\* heights null, or equal heights without two different non-null positions)
\* the verdict is UNKNOWN.
C9_ConfirmedBeatsUnconfirmed ==
    ComparedDifferent =>
        /\ (obs.tx1.blockHeight = Null /\ obs.tx2.blockHeight # Null)
              => LastVerdict.winner = "REPO2"
        /\ (obs.tx2.blockHeight = Null /\ obs.tx1.blockHeight # Null)
              => LastVerdict.winner = "REPO1"
        /\ (obs.tx1.blockHeight = Null /\ obs.tx2.blockHeight = Null)
              => LastVerdict.winner = "UNKNOWN"
        /\ (BothHeights /\ obs.tx1.blockHeight = obs.tx2.blockHeight
            /\ (~BothPositions \/ obs.tx1.blockPosition = obs.tx2.blockPosition))
              => LastVerdict.winner = "UNKNOWN"

\* C9 witness: repo1's transaction is unconfirmed (the API answered it, with
\* no block), repo2's is in block 1.
C9_Witness ==
    /\ ComparedDifferent
    /\ obs.fail1 = "none" /\ obs.tx1 = NullPosition
    /\ obs.tx2.blockHeight = 1
    /\ LastVerdict.winner = "REPO2"
    /\ LastVerdict.reason = "Repo1 tx not confirmed"

\* C10: when exactly one side carries the 'ID not found' sentinel, the other
\* side wins with its inscription id, without any provider request.
C10_OneMissingOtherWins ==
    /\ (idx <= Len(conflicts)
        /\ (conflicts[idx].repo1Id = IdNotFound) # (conflicts[idx].repo2Id = IdNotFound))
          => pc = "idle"
    /\ (HasVerdict
        /\ (LastConflict.repo1Id = IdNotFound) # (LastConflict.repo2Id = IdNotFound))
          => /\ ~obs.requested
             /\ IF LastConflict.repo1Id = IdNotFound
                THEN /\ LastVerdict.winner = "REPO2"
                     /\ LastVerdict.inscriptionId = LastConflict.repo2Id
                ELSE /\ LastVerdict.winner = "REPO1"
                     /\ LastVerdict.inscriptionId = LastConflict.repo1Id

\* C10 witness: repo2 has no identity for the block, repo1 wins.
C10_Witness ==
    /\ HasVerdict
    /\ LastConflict.repo1Id \in ValidIds /\ LastConflict.repo2Id = IdNotFound
    /\ LastVerdict.winner = "REPO1" /\ LastVerdict.inscriptionId = LastConflict.repo1Id
    /\ ~obs.requested

\* What a resolveConflict call observed of the ledger: the path it took, the
\* sat listing it read and the two positions it was given.
SameObservation(a, b) ==
    /\ a.path = b.path
    /\ a.actualSat = b.actualSat /\ a.validOnSat = b.validOnSat
    /\ a.remainingId = b.remainingId
    /\ a.tx1 = b.tx1 /\ a.tx2 = b.tx2

FirstCallDone == calls = 1 /\ ~lastCall.rejected

\* The sats a loaded file holds.
Keys(map) == {map[i].key : i \in 1..Len(map)}

KeyUnion == Keys(file1Data) \cup Keys(file2Data)

\* The entries of differences of a type.
EntriesOfType(type) == {i \in 1..Len(differences) : differences[i].type = type}

\* The entries of differences keyed by a sat.
EntriesOfSat(sat) == {i \in 1..Len(differences) : differences[i].sat = sat}

\* The sats an entry of differences names.
SatsNamed(e) == {e.sat, e.file1Sat, e.file2Sat} \ {Null}

\* The class the two loaded files put a sat in.
ClassOf(sat) ==
    IF sat \in Keys(file1Data) /\ sat \in Keys(file2Data)
    THEN IF MapGet(file1Data, sat) = MapGet(file2Data, sat) THEN "MATCH" ELSE "CONFLICT"
    ELSE IF sat \in Keys(file1Data) THEN "FILE1_ONLY" ELSE "FILE2_ONLY"

\* C12 as stated: no sat appears in entries of two different classes.
C12_NoSatInTwoClasses ==
    FirstCallDone =>
        \A i, j \in 1..Len(differences) :
            SatsNamed(differences[i]) \cap SatsNamed(differences[j]) # {}
                => differences[i].type = differences[j].type

\* C12, amended: after compareFiles on a new comparator every sat of the two
\* files is classified exactly once by the sat-keyed view: a sat with the
\* same block in both files is counted in stats.matches and has no entry,
\* every other sat is the sat of exactly one entry, of type CONFLICT,
\* FILE1_ONLY or FILE2_ONLY as the files tell; no other sat has an entry.
\* The BLOCK_CONFLICT entries are a second view and may name the same sats.
C12_SatsClassifiedOnce ==
    FirstCallDone =>
        /\ \A s \in KeyUnion :
              IF ClassOf(s) = "MATCH"
              THEN EntriesOfSat(s) = {}
              ELSE /\ Cardinality(EntriesOfSat(s)) = 1
                   /\ \A i \in EntriesOfSat(s) : differences[i].type = ClassOf(s)
        /\ \A i \in 1..Len(differences) :
              differences[i].sat # Null => differences[i].sat \in KeyUnion
        /\ stats.matches = Cardinality({s \in KeyUnion : ClassOf(s) = "MATCH"})

\* C12 witness: one sat matches, one sat has two blocks, and a block is
\* claimed by two sats, one of them the sat of the CONFLICT entry.
C12_Witness ==
    /\ FirstCallDone
    /\ stats.matches = 1
    /\ \E i \in EntriesOfType("CONFLICT"), j \in EntriesOfType("BLOCK_CONFLICT") :
          differences[i].sat \in SatsNamed(differences[j])

\* The two loaded files share no sat.
DisjointKeys == Keys(file1Data) \cap Keys(file2Data) = {}

\* The blocks a loaded file holds.
Blocks(map) == {map[i].value : i \in 1..Len(map)}

\* C13 as stated: files sharing no sat give file-only entries and nothing
\* else, |A| + |B| of them, and no match.
C13_DisjointOnlyFileOnly ==
    (FirstCallDone /\ DisjointKeys) =>
        /\ \A i \in 1..Len(differences) :
              differences[i].type \in {"FILE1_ONLY", "FILE2_ONLY"}
        /\ Len(differences) = Len(file1Data) + Len(file2Data)
        /\ stats.matches = 0

\* C13, amended: files sharing no sat give one FILE1_ONLY entry per sat of
\* file 1 and one FILE2_ONLY entry per sat of file 2, no match and no
\* CONFLICT entry; every further entry is a BLOCK_CONFLICT for a block both
\* files hold.
C13_DisjointFileOnlyAndBlockConflicts ==
    (FirstCallDone /\ DisjointKeys) =>
        /\ Cardinality(EntriesOfType("FILE1_ONLY")) = Len(file1Data)
        /\ Cardinality(EntriesOfType("FILE2_ONLY")) = Len(file2Data)
        /\ stats.file1Only = Len(file1Data) /\ stats.file2Only = Len(file2Data)
        /\ stats.matches = 0 /\ stats.conflicts = 0
        /\ EntriesOfType("CONFLICT") = {}
        /\ \A i \in 1..Len(differences) :
              differences[i].type \notin {"FILE1_ONLY", "FILE2_ONLY"}
                  => /\ differences[i].type = "BLOCK_CONFLICT"
                     /\ differences[i].block \in Blocks(file1Data) \cap Blocks(file2Data)

\* C13 witness: the files share no sat and one block, which is reported
\* next to the two file-only entries.
C13_Witness ==
    /\ FirstCallDone /\ DisjointKeys
    /\ Len(file1Data) = 1 /\ Len(file2Data) = 1
    /\ Len(differences) = 3
    /\ EntriesOfType("BLOCK_CONFLICT") # {}

\* The sats a loaded file maps to a block.
SatsOfBlock(map, block) == {map[i].key : i \in {k \in 1..Len(map) : map[k].value = block}}

\* C14: for every block b that file 1 gives to a sat s1 and file 2 gives to
\* a different sat s2, differences holds exactly one BLOCK_CONFLICT entry
\* for b, also when a file gives b to several sats.
C14_OneBlockConflictPerBlock ==
    FirstCallDone =>
        \A b \in Blocks(file1Data) \cap Blocks(file2Data) :
            (\E s1 \in SatsOfBlock(file1Data, b), s2 \in SatsOfBlock(file2Data, b) : s1 # s2)
                => Cardinality({i \in EntriesOfType("BLOCK_CONFLICT") :
                                   differences[i].block = b}) = 1

\* The BLOCK_CONFLICT entries of a list of differences, as
\* <<block, file1Sat, file2Sat>>.
BlockConflictsIn(diffs) ==
    {<<diffs[i].block, diffs[i].file1Sat, diffs[i].file2Sat>> :
        i \in {k \in 1..Len(diffs) : diffs[k].type = "BLOCK_CONFLICT"}}

\* What compareFiles leaves in differences on a new comparator when the two
\* paths of the last call are exchanged.
SwappedDifferences == Compare(<< >>, FreshStats, file2Data, file1Data).differences

\* C15: BLOCK_CONFLICT detection is symmetric: compareFiles(A, B) and
\* compareFiles(B, A) report the same conflicting blocks, with file1Sat and
\* file2Sat exchanged.
C15_BlockConflictsSymmetric ==
    FirstCallDone =>
        BlockConflictsIn(differences) =
            {<<t[1], t[3], t[2]>> : t \in BlockConflictsIn(SwappedDifferences)}

\* C15 witness: block 5 is given to sat 100 by file 1 and to sat 200 by
\* file 2; both directions report it.
C15_Witness ==
    /\ FirstCallDone
    /\ <<5, 100, 200>> \in BlockConflictsIn(differences)
    /\ <<5, 200, 100>> \in BlockConflictsIn(SwappedDifferences)

\* C16: comparing a dataset with itself gives only matches: stats.matches is
\* the number of its sats, and there is no sat conflict, no block conflict
\* and no file-only entry.
C16_SelfCompareOnlyMatches ==
    (FirstCallDone /\ file1Data = file2Data) =>
        /\ differences = << >>
        /\ stats.matches = Len(file1Data)
        /\ stats.conflicts = 0 /\ stats.file1Only = 0 /\ stats.file2Only = 0

\* C16 witness: both paths name one file of two sats.
C16_Witness ==
    /\ FirstCallDone /\ file1Data = file2Data
    /\ lastCall.file1Path = lastCall.file2Path
    /\ Len(file1Data) = 2
    /\ stats.matches = 2 /\ differences = << >>

\* The sats both loaded files hold with different blocks.
ConflictingSats == {s \in Keys(file1Data) \cap Keys(file2Data) : MapGet(file1Data, s) # MapGet(file2Data, s)}

\* C17: every sat both files hold with different blocks has exactly one
\* CONFLICT entry, which carries both blocks; stats.conflicts counts these
\* sats; for A = {100 -> 5}, B = {100 -> 7} that entry is the whole diff.
C17_OneConflictPerSat ==
    FirstCallDone =>
        /\ \A s \in ConflictingSats :
              /\ Cardinality(EntriesOfSat(s) \cap EntriesOfType("CONFLICT")) = 1
              /\ \A i \in EntriesOfSat(s) \cap EntriesOfType("CONFLICT") :
                    /\ differences[i].file1Block = MapGet(file1Data, s)
                    /\ differences[i].file2Block = MapGet(file2Data, s)
        /\ stats.conflicts = Cardinality(ConflictingSats)
        /\ (/\ file1Data = <<[key |-> 100, value |-> 5]>>
            /\ file2Data = <<[key |-> 100, value |-> 7]>>)
              => differences = <<DiffEntry("CONFLICT", 100, 5, 7, Null, Null, Null)>>

\* C17 witness: A = {100 -> 5}, B = {100 -> 7} compared.
C17_Witness ==
    /\ FirstCallDone
    /\ file1Data = <<[key |-> 100, value |-> 5]>>
    /\ file2Data = <<[key |-> 100, value |-> 7]>>
    /\ stats.conflicts = 1 /\ Len(differences) = 1

\* What compareFiles leaves on a new comparator given the files of the last
\* call.
FreshResult == Compare(<< >>, FreshStats, file1Data, file2Data)

\* The elements of a list of differences.
EntrySet(diffs) == {diffs[i] : i \in 1..Len(diffs)}

\* C18: what compareFiles returns depends on the inputs of that call only: a
\* call on a comparator that was used before leaves the entries and the
\* counts a new comparator would have.
C18_ResultOfThisCallOnly ==
    (calls >= 1 /\ ~lastCall.rejected) =>
        /\ stats = FreshResult.stats
        /\ Len(differences) = Len(FreshResult.differences)
        /\ EntrySet(differences) = EntrySet(FreshResult.differences)

\* The map the claim has loadFile build from an array: every entry with a
\* sat and a height is loaded, the height taken from block or, when block is
\* absent, from blockheight.
RECURSIVE LoadedAsClaimed(_, _)
LoadedAsClaimed(dataMap, entries) ==
    IF entries = << >> THEN dataMap
    ELSE LET entry == Head(entries)
             block == OrElseIfAbsent(entry.block, entry.blockheight)
         IN  LoadedAsClaimed(IF entry.sat = Null \/ block = Null
                             THEN dataMap
                             ELSE MapSet(dataMap, entry.sat, block),
                             Tail(entries))

\* C19: loadFile fails the whole file only when the parsed input is no
\* array; otherwise it skips exactly the records lacking a sat or lacking
\* both block and blockheight and loads every other record, with the height
\* of block or, when absent, of blockheight, for every height from 0 on.
C19_LoadsEveryWellFormedRecord ==
    calls >= 1 =>
        /\ lastCall.rejected = ~(inputFiles[lastCall.file1Path].isArray
                                 /\ inputFiles[lastCall.file2Path].isArray)
        /\ inputFiles[lastCall.file1Path].isArray
              => file1Data = LoadedAsClaimed(<< >>, inputFiles[lastCall.file1Path].entries)

(***************************************************************************)
(* Properties of the provider layer.                                       *)
(***************************************************************************)
\* A transaction lookup is about to be sent to provider cur.api.
TxRequestPending == pc = "tx" /\ cur.api < NumApis

\* A block-txids lookup is about to be sent to cur.blk, one of the providers
\* that carry a quota.
BlockRequestPending == pc = "blk" /\ cur.blk < NumApis

\* Transaction lookups leave a provider marked exhausted alone and never go
\* back below the active provider.
TxRequestsSkipExhausted == TxRequestPending => (~exhausted[cur.api] /\ cur.api >= activeApiIndex)

\* C20: once a provider is marked exhausted no later request of either kind,
\* transaction lookup or block-txids lookup, is sent to it in that run;
\* every request starts at the lowest-index active provider.
C20_NoRequestToExhaustedProvider ==
    /\ TxRequestsSkipExhausted
    /\ BlockRequestPending => (~exhausted[cur.blk] /\ cur.blk >= activeApiIndex)

\* An authenticated blockstream request of this fetchFromAPI call was
\* answered 401.
Denied == call.error = "denied"

\* The credential a 401 cleared stays cleared.
StaysCleared == trace.cleared => (~blockstreamAuthHeader /\ ~trace.authAfterClear)

\* The denied request is retried without credentials exactly once.
RetriedOnce == trace.unauthRetries <= 1

\* The request is passed to the next provider only with blockstream marked
\* exhausted.
PassedOnExhausted == (Denied /\ fpc = "loop" /\ call.i > 1) => exhausted[1]

\* C21: when an authenticated blockstream request is answered 401, the cached
\* credential is cleared and stays cleared for later requests, the request is
\* retried exactly once without credentials, and only when that retry fails
\* too is blockstream marked exhausted and the request passed on.
C21_ClearedRetriedOnce == StaysCleared /\ RetriedOnce /\ PassedOnExhausted

\* No URL is requested more than retries times for one fetchJSONWithRetry
\* call of fetchFromAPI.
AttemptsBounded == \A u \in Urls : trace.attempts[u] <= Retries

\* Every invocation has slept 100 * 2^(k-1) ms plus a jitter below 50 ms
\* after its failed attempt k.
DelaysGrow ==
    \A f \in 1..Len(stack) :
        /\ Len(stack[f].waits) = stack[f].attempt - 1
        /\ stack[f].attempt <= Retries
        /\ \A k \in 1..Len(stack[f].waits) :
              stack[f].waits[k] - 100 * 2^(k - 1) \in 0..49

\* The error the call threw is the error of its last attempt.
LastErrorRethrown == trace.thrown # "none" => trace.thrown = trace.lastAttempt

\* C22: fetchJSONWithRetry ends after at most retries HTTP attempts for one
\* URL, returns on the first success, waits 100 * 2^(k-1) ms plus a jitter
\* below 50 ms between the failed attempts k and k+1, and after the last
\* failed attempt rethrows that attempt's error.
C22_BoundedAttemptsWithBackoff == AttemptsBounded /\ DelaysGrow /\ LastErrorRethrown

\* The txid of the first and of the second getTxPositionInBlock call of the
\* resolution in progress.
TxidOfLookup(k, c, locals) == CurTxid(c, [locals EXCEPT !.lk = k])

\* A position a getTxPositionInBlock call returned with a block height is
\* the index of the txid in the list cached for that height.
FromCachedList(position, txid, cache) ==
    position.blockHeight # Null =>
        /\ cache[position.blockHeight] # NoList
        /\ position.blockPosition = IndexOf(cache[position.blockHeight], txid)

\* One step keeps the block cache as the claim has it.
CacheStep ==
    /\ \A h \in 1..MaxHeight : blockCache[h] # NoList => blockCache'[h] = blockCache[h]
    /\ pc' = "blk" => blockCache'[cur'.height] = NoList
    /\ blockCache' # blockCache => (pc = "blk" /\ blockCache'[cur.height] # NoList)
    /\ (pc' \in {"tx", "decide"} /\ cur'.lk = 2)
          => FromCachedList(cur'.tx1, TxidOfLookup(1, conflicts[idx], cur'), blockCache')
    /\ pc' = "decide"
          => FromCachedList(cur'.tx2, TxidOfLookup(2, conflicts[idx], cur'), blockCache')

\* C23: once the txid list of a block height was fetched, no further
\* block-txids request is sent for that height, the cached list is never
\* changed or evicted, every later lookup for that height takes its position
\* from that list; a failed fetch caches nothing.
C23_BlockListCachedForTheRun == [][CacheStep]_vars

\* C23 witness: both lookups of the second resolution are in one block whose
\* list is cached; the two positions come from that list.
C23_Witness ==
    /\ pc = "decide" /\ idx = 2
    /\ cur.tx1.blockHeight # Null /\ cur.tx1.blockHeight = cur.tx2.blockHeight
    /\ blockCache[cur.tx1.blockHeight] = <<"bb", "aa">>
    /\ cur.tx1.blockPosition = 1 /\ cur.tx2.blockPosition = 0


\* ---------------------------------------------------------------------------
\* Properties of the batch reconciler.
\* ---------------------------------------------------------------------------

\* C24: in a batch run the partition file of a source is fetched at most
\* once, whether the fetch succeeded or not, however many conflicts and
\* report sections need it.
C24_PartitionFetchedOnce ==
    bpc.stage # "idle" => \A k \in DOMAIN fetched : fetched[k] <= 1


\* generateReport has assigned this.allBlockConflicts.
Aggregated == bpc.stage \in {"lookup", "critical", "done"}

\* The BLOCK_CONFLICT entries of the per-file results, in comparison order.
ResultConflicts ==
    SelectSeq(AllDifferences(fileResults), LAMBDA d : d.type = "BLOCK_CONFLICT")

\* The entry of allBlockConflicts at position i is the first BLOCK_CONFLICT
\* entry the results hold for its block, or, when they hold none, an
\* inter-file conflict.
FirstKept(i) ==
    LET e == allBlockConflicts[i]
        same == {k \in 1..Len(ResultConflicts) : ResultConflicts[k].block = e.block}
        first == ResultConflicts[CHOOSE k \in same : \A m \in same : k <= m]
    IN  IF same = {} THEN e.isInterFileConflict
        ELSE /\ ~e.isInterFileConflict
             /\ e.file1Sat = first.file1Sat
             /\ e.file2Sat = first.file2Sat

PartitionKey(source, block) == <<source, GetRegistryFileForBlock(block)>>

\* In this step the partition file of the block was requested from the source
\* and could not be fetched or read.
FetchFailed(source, block) ==
    /\ fetched'[PartitionKey(source, block)] > fetched[PartitionKey(source, block)]
    /\ ~MapHas(registryCache', PartitionKey(source, block))

\* After this step the source has no partition file for the block, or an
\* array of entries.
Readable(source, block) ==
    MapHas(registryCache', PartitionKey(source, block))
        => MapGet(registryCache', PartitionKey(source, block)).isArray

\* The identity the source's partition file, as held after this step, gives
\* the block: the iD of its first entry for the block, else the sentinel.
IdentityAt(source, block) ==
    LET data == MapGet(registryCache', PartitionKey(source, block))
        hits == {k \in 1..Len(data.entries) : data.entries[k].block = block}
    IN  IF ~MapHas(registryCache', PartitionKey(source, block)) \/ hits = {}
        THEN IdNotFound
        ELSE data.entries[CHOOSE k \in hits : \A m \in hits : k <= m].iD

\* A lookup for a block ended with these identities: the side that failed has
\* the sentinel, the other side what its partition file gives.
SentinelForFailedSide(block, ids) ==
    \A s \in Sources :
        FetchFailed(s, block) /\ Readable(3 - s, block) =>
            /\ ids[s] = IdNotFound
            /\ ids[3 - s] = IdentityAt(3 - s, block)
            /\ bpc'.stage # "fatal"

LookupStep ==
    bpc.stage = "lookup" /\ bpc' # bpc =>
        LET after == allBlockConflicts'[bpc.i]
        IN  /\ SentinelForFailedSide(after.block, <<after.repo1Id, after.repo2Id>>)
            /\ \A k \in 1..Len(allBlockConflicts) :
                  k # bpc.i => allBlockConflicts'[k] = allBlockConflicts[k]

CriticalStep ==
    bpc.stage = "critical" /\ bpc' # bpc =>
        LET after == criticalIds'[Len(criticalIds')]
        IN  SentinelForFailedSide(after.block, <<after.repo1Id, after.repo2Id>>)

\* C26: when the partition file of one source cannot be fetched or read while
\* the other source's is missing too or an array, the identity of the failed
\* side becomes the sentinel 'ID not found' the resolver tests for, the other
\* side keeps the identity its partition file gives, and the run goes on.
C26_FailedSideNotFound == [][LookupStep /\ CriticalStep]_vars

\* A run that ended with a conflict whose first side could not be fetched and
\* whose second side was found.
C26_Witness ==
    /\ bpc.stage = "done"
    /\ \E i \in 1..Len(allBlockConflicts) :
          /\ fetched[PartitionKey(1, allBlockConflicts[i].block)] > 0
          /\ ~MapHas(registryCache, PartitionKey(1, allBlockConflicts[i].block))
          /\ allBlockConflicts[i].repo1Id = IdNotFound
          /\ allBlockConflicts[i].repo2Id \in ValidIds


\* The names a registry lists.
Listed(source) == {f \in DOMAIN repos[source] : repos[source][f].present}

\* run() is past the comparison of the file lists.
ListsCompared == bpc.stage \in {"compare", "report", "lookup", "critical", "done"}

\* run() is past the loop over filesToCompare.
AllCompared == bpc.stage \in {"report", "lookup", "critical", "done"}

\* The files of both lists, and no others, were compared, each once.
ComparedOnce ==
    AllCompared =>
        /\ {fileResults[k].filename : k \in 1..Len(fileResults)} = Listed(1) \cap Listed(2)
        /\ \A j, k \in 1..Len(fileResults) :
              fileResults[j].filename = fileResults[k].filename => j = k

\* A difference between the two lists was reported.
MismatchReported == ListsCompared /\ Listed(1) # Listed(2) => warned

\* A pair that could not be compared left an error result for its file, and
\* every other file its comparison.
FailuresLocal ==
    AllCompared =>
        \A k \in 1..Len(fileResults) :
            LET f == fileResults[k].filename
            IN  fileResults[k].error <=>
                    ~(repos[1][f].file.isArray /\ repos[2][f].file.isArray)

\* C27: the batch reconciler compares exactly the files present in both
\* lists, each once; a difference between the lists is reported and the run
\* goes on; a pair that fails to compare is recorded for that file only.
C27_ComparesCommonFiles == ComparedOnce /\ MismatchReported /\ FailuresLocal


\* ---------------------------------------------------------------------------
\* Properties of the duplicate validator and the competition.
\* ---------------------------------------------------------------------------

\* The records of the sat_*.json files in the order the validator scans them,
\* each with its file.
RECURSIVE ScannedRecords(_)
ScannedRecords(files) ==
    IF files = << >> THEN << >>
    ELSE [k \in 1..Len(Head(files).content) |->
             [file |-> Head(files).file, sat |-> Head(files).content[k].sat,
              block |-> Head(files).content[k].block]]
         \o ScannedRecords(Tail(files))

\* Every occurrence of a block (of a sat) in the registry, the first included.
BlockOccurrences(b) ==
    LET of == SelectSeq(ScannedRecords(registry), LAMBDA r : r.block = b)
    IN  [k \in 1..Len(of) |-> [file |-> of[k].file, sat |-> of[k].sat]]

SatOccurrences(s) ==
    LET of == SelectSeq(ScannedRecords(registry), LAMBDA r : r.sat = s)
    IN  [k \in 1..Len(of) |-> [file |-> of[k].file, block |-> of[k].block]]

\* The item lines the report holds under a header line.
ItemsUnder(h) ==
    LET n == CHOOSE n \in 0..(Len(report) - h) :
                 /\ \A k \in 1..n : report[h + k].kind \in {"BlockItem", "SatItem"}
                 /\ h + n < Len(report) =>
                        report[h + n + 1].kind \notin {"BlockItem", "SatItem"}
    IN  SubSeq(report, h + 1, h + n)

\* The occurrences the report lists for a block (for a sat).
ReportedForBlock(b) ==
    LET hs == {h \in 1..Len(report) : report[h].kind = "BlockHeader" /\ report[h].block = b}
        items == ItemsUnder(CHOOSE h \in hs : TRUE)
    IN  IF hs = {} THEN << >>
        ELSE [k \in 1..Len(items) |-> [file |-> items[k].file, sat |-> items[k].sat]]

ReportedForSat(s) ==
    LET hs == {h \in 1..Len(report) : report[h].kind = "SatHeader" /\ report[h].sat = s}
        items == ItemsUnder(CHOOSE h \in hs : TRUE)
    IN  IF hs = {} THEN << >>
        ELSE [k \in 1..Len(items) |-> [file |-> items[k].file, block |-> items[k].block]]

\* C28: for every block (sat) held by more than one valid record the
\* validator's report lists every occurrence, the first included, each with
\* its file and sat (block).
C28_EveryOccurrenceRecorded ==
    stage = "compete" =>
        /\ \A b \in 1..MaxBlock :
              Len(BlockOccurrences(b)) > 1 => ReportedForBlock(b) = BlockOccurrences(b)
        /\ \A s \in 1..MaxSat :
              Len(SatOccurrences(s)) > 1 => ReportedForSat(s) = SatOccurrences(s)

\* The report lists every occurrence but the first.
LaterOccurrencesRecorded ==
    stage = "compete" =>
        /\ \A b \in 1..MaxBlock :
              Len(BlockOccurrences(b)) > 1 => ReportedForBlock(b) = Tail(BlockOccurrences(b))
        /\ \A s \in 1..MaxSat :
              Len(SatOccurrences(s)) > 1 => ReportedForSat(s) = Tail(SatOccurrences(s))

\* The blocks the validator's report gives a section.
ReportedBlocks ==
    {report[h].block : h \in {k \in 1..Len(report) : report[k].kind = "BlockHeader"}}

\* C29: every block the validator reports as duplicated is in the parsed
\* duplicate list with the sats of all its occurrences, a block that occurs
\* exactly twice included.
C29_EveryReportedBlockParsed ==
    stage = "remove" /\ loserIdx = 1 =>
        \A b \in ReportedBlocks :
            ParseDuplicateReport(report)[b]
                = [k \in 1..Len(BlockOccurrences(b)) |-> BlockOccurrences(b)[k].sat]

\* Every reported block with more than one listed sat is parsed with the sats
\* listed.
ListedSatsParsed ==
    stage = "remove" /\ loserIdx = 1 =>
        \A b \in ReportedBlocks :
            Len(ReportedForBlock(b)) > 1 =>
                ParseDuplicateReport(report)[b]
                    = [k \in 1..Len(ReportedForBlock(b)) |-> ReportedForBlock(b)[k].sat]

\* The sat the index loaded by the competition gives a block, Null for none.
RegisteredSat(b) == LoadRegistryIndex(canonical)[b]

\* The competition has run on a block held by several records that the index
\* gives a sat.
Competed(b) ==
    /\ stage = "remove" /\ loserIdx = 1
    /\ Len(BlockOccurrences(b)) > 1
    /\ RegisteredSat(b) # Null

\* Every winner of the block is an occurrence with the registered sat.
WinnerIsOccurrence(b) ==
    \A w \in 1..Len(competition.winners) :
        competition.winners[w].block = b =>
            /\ competition.winners[w].sat = RegisteredSat(b)
            /\ \E k \in 1..Len(BlockOccurrences(b)) :
                  BlockOccurrences(b)[k].sat = RegisteredSat(b)

\* Every occurrence with another sat is a loser.
OthersLose(b) ==
    \A k \in 1..Len(BlockOccurrences(b)) :
        BlockOccurrences(b)[k].sat # RegisteredSat(b) =>
            \E l \in 1..Len(competition.losers) :
                competition.losers[l] = [block |-> b, sat |-> BlockOccurrences(b)[k].sat]

\* No loser has the registered sat.
NoLoserRegistered(b) ==
    \A l \in 1..Len(competition.losers) :
        competition.losers[l].block = b => competition.losers[l].sat # RegisteredSat(b)

WinnersAreOccurrences == \A b \in 1..MaxBlock : Competed(b) => WinnerIsOccurrence(b)
AllOthersLose == \A b \in 1..MaxBlock : Competed(b) => OthersLose(b)
NoLoserIsRegistered == \A b \in 1..MaxBlock : Competed(b) => NoLoserRegistered(b)

\* C30: for every duplicated block with an entry in the index the winner is
\* an occurrence whose sat is the registered sat, every other occurrence is a
\* loser, and no loser has the registered sat.
C30_RegisteredOccurrenceWins ==
    WinnersAreOccurrences /\ AllOthersLose /\ NoLoserIsRegistered


\* The competition has run and the remover has not started.
CompetitionDone == stage = "remove" /\ loserIdx = 1

InWinners(b) == \E k \in 1..Len(competition.winners) : competition.winners[k].block = b
InLosers(b) == \E k \in 1..Len(competition.losers) : competition.losers[k].block = b
InUnresolved(b) == \E k \in 1..Len(competition.unresolved) : competition.unresolved[k].block = b

\* No block is both among the winners and unresolved.
WinnersNotUnresolved ==
    CompetitionDone => \A b \in 1..MaxBlock : ~(InWinners(b) /\ InUnresolved(b))

\* resolveCompetition on the list it is given: a listed block without a
\* registered sat is unresolved only, a listed block with a listed sat other
\* than the registered one has a winner only.
ListedIsSettled ==
    CompetitionDone =>
        \A b \in 1..MaxBlock :
            LET sats == ParseDuplicateReport(report)[b]
            IN  /\ sats # << >> /\ RegisteredSat(b) = Null =>
                       InUnresolved(b) /\ ~InWinners(b) /\ ~InLosers(b)
                /\ sats # << >> /\ RegisteredSat(b) # Null
                     /\ (\E k \in 1..Len(sats) : sats[k] # RegisteredSat(b)) =>
                       InWinners(b) /\ ~InUnresolved(b)

CurrentLoser == competition.losers[loserIdx]

\* content without the records of the loser's sat for the loser's block.
WithoutLoser(content, loser) ==
    SelectSeq(content, LAMBDA r : ~(r.sat = loser.sat /\ r.block = loser.block))

\* A step of the remover that rewrites a file takes the loser's record, and
\* nothing else, out of one file and leaves the other files as they were.
ExactRemoval ==
    stage = "remove" /\ registry' # registry =>
        \E k \in 1..Len(registry) :
            /\ registry'[k].content = WithoutLoser(registry[k].content, CurrentLoser)
            /\ registry'[k].file = registry[k].file
            /\ \A j \in 1..Len(registry) : j # k => registry'[j] = registry[j]

\* C32: for each loser the remover removes exactly the record of that sat for
\* that block from the file holding it and rewrites only that file; the other
\* records of the file keep presence and order, the other files are unchanged.
C32_RemovesExactlyTheLoser == [][ExactRemoval]_vars

\* A step of the remover rewrites at most one file, and takes from it only
\* records of the loser's sat.
OneFileLoserSatOnly ==
    stage = "remove" /\ registry' # registry =>
        \E k \in 1..Len(registry) :
            /\ registry'[k].content
                   = SelectSeq(registry[k].content, LAMBDA r : r.sat # CurrentLoser.sat)
            /\ \A j \in 1..Len(registry) : j # k => registry'[j] = registry[j]

RemovesLoserSatFromOneFile == [][OneFileLoserSatOnly]_vars


\* ---------------------------------------------------------------------------
\* Properties of the provider router.
\* ---------------------------------------------------------------------------

\* In this step the fetchJSONWithRetry call made first for provider call.i
\* threw the error of an attempt that ended as out.
FirstFetchThrew(out) ==
    fpc = "http" /\ ~call.second /\ trace' # trace /\ trace'.thrown = out

\* The router index does not decrease.
IndexGrows == activeApiIndex' >= activeApiIndex

\* A provider that fails with HTTP 429 is exhausted, the index moves past it
\* and the call goes on with the next provider.
RateLimitExhausts ==
    FirstFetchThrew("e429") =>
        /\ exhausted'[call.i]
        /\ activeApiIndex' >= call.i + 1
        /\ fpc' = "loop" /\ call'.n = call.n /\ call'.i = call.i + 1

\* The provider after one that just failed with HTTP 429 is sent the request.
NextProviderTried ==
    fpc = "loop" /\ trace.thrown = "e429" /\ call.i > 0 /\ call.i < NumApis /\ fpc' # fpc
        => fpc' = "http" /\ call'.n = call.n /\ call'.i = call.i

\* A provider that fails with another error than 429 or a blockstream 401 is
\* not exhausted, and the call goes on with the next provider.
NetworkErrorPasses ==
    FirstFetchThrew("err") =>
        /\ exhausted' = exhausted
        /\ activeApiIndex' = activeApiIndex
        /\ fpc' = "loop" /\ call'.n = call.n /\ call'.i = call.i + 1

RouterStep == IndexGrows /\ RateLimitExhausts /\ NextProviderTried /\ NetworkErrorPasses

\* C36: activeApiIndex never decreases; a provider i that fails a request with
\* HTTP 429 becomes exhausted, activeApiIndex becomes at least i+1 and the
\* request is tried on provider i+1 in the same call; a plain network error
\* passes the request to the next provider without exhausting provider i.
C36_RateLimitMovesRouter == [][RouterStep]_vars

\* The first call is sending the request to blockstream after mempool failed
\* it with HTTP 429.
C36_Witness ==
    /\ fpc = "http" /\ call.n = 1 /\ call.i = 1
    /\ exhausted[0] /\ activeApiIndex = 1
    /\ trace.thrown = "e429"


\* A call of fetchFromAPI starts.
CallStarts == fpc = "idle" /\ fpc' = "loop"

\* A call that starts when the quota window of an exhausted provider is over
\* begins its loop at that provider or before it, so that the loop comes to
\* the provider's quota check.
VisitsDueProvider ==
    CallStarts =>
        \A i \in DOMAIN exhausted : exhausted[i] /\ quotaDue[i] => call'.i <= i

\* C37: an exhausted provider returns to ACTIVE once its quota window of one
\* hour has elapsed: a call made after that comes to the provider and clears
\* its flag, so that no provider stays exhausted forever and a provider can
\* serve again after all were exhausted.
C37_ExhaustedProviderReturns == [][VisitsDueProvider]_vars

\* A provider is exhausted only when the router index is past it.
ExhaustedIsBehindRouter ==
    \A i \in DOMAIN exhausted : exhausted[i] => activeApiIndex > i


\* ---------------------------------------------------------------------------
\* Properties of the remover's report.
\* ---------------------------------------------------------------------------

\* How often the loser {block, sat} occurs in a list of the remover.
TimesIn(list, l) ==
    Cardinality({i \in 1..Len(list) : list[i].block = l.block /\ list[i].sat = l.sat})

\* The losers the remover's loop has handled so far.
Handled == SubSeq(competition.losers, 1, loserIdx - 1)

\* Every handled loser is in exactly one of removed, failed and notFound, as
\* often as the loser list holds it, and the three sizes add up.
OneGroupEach ==
    stage \in {"remove", "done"} =>
        /\ Len(removalLog.removed) + Len(removalLog.failed) + Len(removalLog.notFound)
               = Len(Handled)
        /\ \A i \in 1..Len(Handled) :
               TimesIn(Handled, Handled[i])
                   = TimesIn(removalLog.removed, Handled[i])
                     + TimesIn(removalLog.failed, Handled[i])
                     + TimesIn(removalLog.notFound, Handled[i])

\* When the removal report is written every loser has been handled.
AllHandled == stage = "done" => Len(Handled) = Len(competition.losers)

\* The step of a loser whose sat no file holds writes nothing and reports the
\* loser as notFound.
NotFoundIsNoOp ==
    stage = "remove" /\ loserIdx' # loserIdx /\ FindSatFile(registry, CurrentLoser.sat) = 0 =>
        /\ registry' = registry
        /\ removalLog'.notFound
               = Append(removalLog.notFound,
                        [block |-> CurrentLoser.block, sat |-> CurrentLoser.sat])

\* The loop goes on to the following loser whatever the outcome of this one.
LoopGoesOn ==
    stage = "remove" /\ loserIdx' # loserIdx => stage' = "remove" /\ loserIdx' = loserIdx + 1

\* C34: every loser ends in exactly one of removed, failed and notFound and the
\* three sizes add up to totalLosers; a loser whose sat is in no file changes
\* nothing and is reported notFound; neither a not-found loser nor a failed
\* removal stops the losers after it from being processed.
C34_EveryLoserAccounted ==
    [](OneGroupEach /\ AllHandled) /\ [][NotFoundIsNoOp /\ LoopGoesOn]_vars

\* The report is written after a failed removal, a not-found loser and a
\* removal.
C34_Witness ==
    /\ stage = "done"
    /\ Len(removalLog.failed) > 0
    /\ Len(removalLog.notFound) > 0
    /\ Len(removalLog.removed) > 0


\* ---------------------------------------------------------------------------
\* Properties of a second run of the remover.
\* ---------------------------------------------------------------------------

\* The first run of the remover found and removed every loser.
FirstRunRemovedAll ==
    firstLog # NoLog /\ firstLog.failed = << >> /\ firstLog.notFound = << >>

\* The second run of the remover with the same losers list has ended.
SecondRunDone == stage = "done" /\ FirstRunRemovedAll

\* The second run removes nothing and finds none of the sats the first run
\* removed.
SecondRunRemovesNothing ==
    SecondRunDone =>
        /\ removalLog.removed = << >>
        /\ Len(removalLog.notFound) = Len(firstLog.removed)

\* A step of the second run leaves the files as they were.
SecondRunWritesNothing ==
    stage = "remove" /\ FirstRunRemovedAll => registry' = registry

\* C33: the remover is idempotent: a second run with the same losers list
\* removes nothing and leaves the files unchanged, and its notFound count is
\* the removed count of the first run.
C33_SecondRunIsNoOp == []SecondRunRemovesNothing /\ [][SecondRunWritesNothing]_vars


\* ---------------------------------------------------------------------------
\* Properties of the authoritative index.
\* ---------------------------------------------------------------------------

\* The blocks a range-partition file of the registry directory records with a
\* sat.
RecordedBlocks ==
    UNION {{canonical[k].content[i].block : i \in 1..Len(canonical[k].content)} :
              k \in 1..Len(canonical)}

\* Every block a partition file records has an entry in the index the
\* competition was resolved with.
IndexHoldsEveryRecordedBlock ==
    CompetitionDone => \A b \in RecordedBlocks : LoadRegistryIndex(canonical)[b] # Null

\* No block a partition file records is reported as unresolved.
RecordedNeverUnresolved ==
    CompetitionDone => \A b \in RecordedBlocks : ~InUnresolved(b)

\* C38: the authoritative index is built from every range-partition file of
\* the registry directory: every block recorded with a sat in any partition
\* file has an index entry and is never reported as unresolved.
C38_IndexFromEveryPartition == IndexHoldsEveryRecordedBlock /\ RecordedNeverUnresolved

\* The blocks recorded by the partition files whose name starts with "0-" have
\* an index entry.
IndexHoldsZeroDashBlocks ==
    \A k \in 1..Len(canonical) :
        StartsWithZeroDash(canonical[k].name) =>
            \A i \in 1..Len(canonical[k].content) :
                LoadRegistryIndex(canonical)[canonical[k].content[i].block] # Null


\* ---------------------------------------------------------------------------
\* Properties of the comparator's counts and order.
\* ---------------------------------------------------------------------------

\* The entries of differences that are no BLOCK_CONFLICT.
SatKeyedEntries == {i \in 1..Len(differences) : differences[i].type # "BLOCK_CONFLICT"}

\* C39: after compareFiles on a fresh comparator matches + conflicts +
\* file1Only is file1Count, matches + conflicts + file2Only is file2Count, and
\* differences holds conflicts + file1Only + file2Only entries that are no
\* BLOCK_CONFLICT.
C39_CountsAddUp ==
    FirstCallDone =>
        /\ stats.matches + stats.conflicts + stats.file1Only = stats.file1Count
        /\ stats.matches + stats.conflicts + stats.file2Only = stats.file2Count
        /\ Cardinality(SatKeyedEntries)
               = stats.conflicts + stats.file1Only + stats.file2Only

\* C39 witness: a match, a sat conflict and a block conflict in one
\* comparison of two files of two sats: differences holds two entries, one of
\* them counted.
C39_Witness ==
    /\ FirstCallDone
    /\ stats.file1Count = 2 /\ stats.file2Count = 2
    /\ stats.matches = 1 /\ stats.conflicts = 1
    /\ Len(differences) = 2 /\ Cardinality(SatKeyedEntries) = 1


\* The sats of the files whose order is looked at: sat 0 is the first sat of
\* block 0 and is loaded like any other.
OrderSats == DiffSats \cup {0}

OrderEntries == {FileEntry(s, b, Null) : s \in OrderSats, b \in DiffBlocks}

\* A new SatComparator and two files of up to MaxEntries entries, sat 0 among
\* their sats.
InitOrder ==
    /\ inputFiles \in [1..2 -> {JsonFile(TRUE, l) : l \in SeqsUpTo(OrderEntries, MaxEntries)}]
    /\ FreshComparator
    /\ NoResolver
    /\ NoFetch
    /\ NoBatch
    /\ NoRecover
    /\ NoPipeline

SpecOrder == InitOrder /\ [][NextDiff]_vars

\* The entries of differences that carry a sat are in ascending sat order.
SatEntriesAscending ==
    \A i, j \in SatKeyedEntries : i < j => differences[i].sat <= differences[j].sat

\* The BLOCK_CONFLICT entries are in ascending block order.
BlockConflictsAscending ==
    \A i, j \in EntriesOfType("BLOCK_CONFLICT") :
        i < j => differences[i].block <= differences[j].block

\* C40: the diff output is totally ordered: the entries that carry a sat are in
\* ascending sat order and the BLOCK_CONFLICT entries in ascending block order,
\* in the same order on every run (looked at where the comparator given to
\* sort is a consistent one, so that the language fixes the order).
C40_DifferencesOrdered ==
    FirstCallDone /\ orderDefined => SatEntriesAscending /\ BlockConflictsAscending

\* The entries that carry a sat other than 0 are in ascending sat order
\* wherever the language fixes the order.
PositiveSatsAscending ==
    FirstCallDone /\ orderDefined =>
        \A i, j \in SatKeyedEntries :
            i < j /\ differences[i].sat # 0 /\ differences[j].sat # 0
                => differences[i].sat <= differences[j].sat


(***************************************************************************)
(* The recovery pipeline: main of recover.mjs runs the validator, the      *)
(* competition and the remover as child processes and looks for the        *)
(* newest report of each after it.                                         *)
(***************************************************************************)
\* The steps of the pipeline, and the pattern findLatestFile is given after
\* each.
Steps == <<"validator", "competition", "remover">>
Patterns == <<"duplicate-validation-", "duplicate-competition-", "duplicate-removal-">>

\* How a child process may end: its exit code, whether it wrote its report
\* and whether it rewrote a registry file. The validator catches a failed
\* write of its report and exits with 0; the competition and the remover
\* exit with 1 when the write throws; only the remover rewrites registry
\* files, before it writes its report.
ChildOutcomes(step) ==
    IF step = 1
    THEN {[code |-> 0, wrote |-> TRUE, modified |-> FALSE],
          [code |-> 0, wrote |-> FALSE, modified |-> FALSE],
          [code |-> 1, wrote |-> FALSE, modified |-> FALSE]}
    ELSE IF step = 2
    THEN {[code |-> 0, wrote |-> TRUE, modified |-> FALSE],
          [code |-> 1, wrote |-> FALSE, modified |-> FALSE]}
    ELSE {[code |-> c, wrote |-> c = 0, modified |-> m] : c \in {0, 1}, m \in BOOLEAN}

\* findLatestFile: the newest file of the directory whose name includes the
\* pattern: a report of this run if there is one, else one an earlier run
\* left, else null ("none").
FindLatestFile(pattern) ==
    IF disk[pattern].fresh THEN "fresh"
    ELSE IF disk[pattern].earlier > 0 THEN "stale"
    ELSE "none"

\* The report the child process of a step is handed: the validator is given
\* the registry only.
InputOf(step) == IF step = 1 THEN "registry" ELSE FindLatestFile(Patterns[step - 1])

\* main: await runCommand('node', [<script>, ...]) of the step main is at; a
\* non-zero exit code rejects and main exits with 1.
RunCommand ==
    /\ rpc \in {"run1", "run2", "run3"}
    /\ LET step == CHOOSE k \in 1..3 : rpc = <<"run1", "run2", "run3">>[k] IN
       \E out \in ChildOutcomes(step) :
          /\ exits' = Append(exits, [step |-> Steps[step], code |-> out.code,
                                     wrote |-> out.wrote, modified |-> out.modified,
                                     input |-> InputOf(step)])
          /\ disk' = IF out.wrote THEN [disk EXCEPT ![Patterns[step]].fresh = TRUE] ELSE disk
          /\ rpc' = IF out.code # 0 THEN "exit1" ELSE <<"find1", "find2", "find3">>[step]
    /\ UNCHANGED <<resolverVars, dupVars, diffVars, fetchVars, batchVars>>

\* main: findLatestFile after a step; null makes main exit with 1.
FindReport ==
    /\ rpc \in {"find1", "find2", "find3"}
    /\ LET step == CHOOSE k \in 1..3 : rpc = <<"find1", "find2", "find3">>[k] IN
       rpc' = IF FindLatestFile(Patterns[step]) = "none" THEN "exit1"
              ELSE <<"run2", "run3", "complete">>[step]
    /\ UNCHANGED <<resolverVars, dupVars, diffVars, fetchVars, batchVars, disk, exits>>

\* The most reports of one kind earlier runs left in the directory.
MaxEarlier == 2

\* The directory of the scripts before the pipeline starts: of each kind of
\* report it holds those earlier runs wrote, and none of this run.
InitRecover ==
    /\ rpc = "run1"
    /\ disk \in [{Patterns[k] : k \in 1..3} ->
                    {[earlier |-> n, fresh |-> FALSE] : n \in 0..MaxEarlier}]
    /\ exits = << >>
    /\ NoResolver
    /\ NoComparison
    /\ NoFetch
    /\ NoBatch
    /\ NoPipeline

NextRecover == RunCommand \/ FindReport

SpecRecover == InitRecover /\ [][NextRecover]_vars

\* ---------------------------------------------------------------------------
\* Properties of the recovery pipeline.
\* ---------------------------------------------------------------------------

\* The steps run in the order validator, competition, remover.
StepsInOrder == \A k \in 1..Len(exits) : k <= 3 /\ exits[k].step = Steps[k]

\* A step starts only after the step before it exited with 0 and wrote its
\* report, and is handed that report.
AfterSuccessWithReport ==
    \A k \in 2..Len(exits) :
        /\ exits[k - 1].code = 0
        /\ exits[k - 1].wrote
        /\ exits[k].input = "fresh"

\* After a failed step no step runs.
FailureHalts == \A k \in 1..Len(exits) : exits[k].code # 0 => k = Len(exits)

\* The registry is rewritten only after the validator and the competition of
\* this run exited with 0 and wrote their reports.
ModifiedOnlyAfterBoth ==
    \A k \in 1..Len(exits) :
        exits[k].modified =>
            /\ k = 3
            /\ exits[1].code = 0 /\ exits[1].wrote
            /\ exits[2].code = 0 /\ exits[2].wrote

\* C35: the recovery pipeline runs validator, competition and remover in that
\* order, each step starting only after the one before it exited successfully
\* and produced its report; a failed step halts the pipeline, so the registry
\* is modified only after validator and competition succeeded.
C35_StagesInOrderAfterSuccess ==
    StepsInOrder /\ AfterSuccessWithReport /\ FailureHalts /\ ModifiedOnlyAfterBoth

\* A step starts only after the step before it exited with 0.
AfterExitZero == \A k \in 2..Len(exits) : exits[k - 1].code = 0

\* A report on disk stays on disk.
ReportKept ==
    \A p \in DOMAIN disk :
        /\ disk'[p].earlier = disk[p].earlier
        /\ disk[p].fresh => disk'[p].fresh

ReportsStayOnDisk == [][ReportKept]_vars

=============================================================================
